---- MODULE Spec2Model ----
(***************************************************************************)
(* A model of the concurrent transfer engine of fastdbfs                   *)
(* (src/fastdbfs/dbfs.py, src/fastdbfs/swarm.py).                           *)
(*                                                                         *)
(* The engine is modelled as several state machines over disjoint groups   *)
(* of variables, one specification each:                                   *)
(*   SpecGate   DBFS._async_control: the semaphore, the rate-limit         *)
(*              cooldown and the retry policy of every HTTP request        *)
(*   SpecSwarm  Swarm: the workers, the task queue and run_while           *)
(*   SpecCwd    DBFS.cd, DBFS.rm and DBFS.mkdir on the working directory   *)
(*   SpecFind   DBFS._async_find: the ordered walk of a remote tree        *)
(*   SpecGet    DBFS.get: the chunked download of a file                   *)
(*   SpecPut    DBFS.put and the streaming upload                          *)
(*   SpecRput   DBFS.rput: the upload of a local tree                      *)
(* Every specification keeps the variables of the others at their idle     *)
(* value.                                                                  *)
(***************************************************************************)
EXTENDS Integers, Sequences, FiniteSets, TLC

VARIABLES
    \* ---- DBFS._async_control (the gate) ----
    workers,        \* DBFS.workers: capacity of DBFS.semaphore
    max_retries,    \* DBFS.max_retries
    now,            \* time.time(), in clock ticks
    wait_until,     \* DBFS.wait_until, in clock ticks
    semaphore,      \* free permits of DBFS.semaphore
    ctl_pc,         \* per request: position inside _async_control
    retries,        \* per request: the local `retries`
    wake_at,        \* per request: tick at which its asyncio.sleep ends
    rate_errors,    \* per request: RateError responses received (history)
    os_errors,      \* per request: OSError responses received (history)
    gate_seen,      \* per request: last_rate when it evaluated line 136
    last_rate,      \* tick of the most recent RateError (history)
    \* ---- Swarm (swarm.py) ----
    max_workers,        \* Swarm.max_workers
    queue_max_size,     \* maxsize of Swarm.queue (0: unbounded)
    use_priority_queue, \* Swarm.queue is an asyncio.PriorityQueue
    queue,              \* Swarm.queue: the wrappers waiting, oldest first
    task_seq,           \* Swarm.task_seq
    worker_pc,          \* per worker: position inside Swarm._worker
    worker_task,        \* per worker: the wrapper it is executing
    response_queue,     \* the response channel of the driver's tasks
    driver_pc,          \* position of run_while.wrapper
    terminate_ix,       \* the loop variable of Swarm.terminate
    r,                  \* run_while: the driver's result
    ex,                 \* run_while: the driver's exception
    run_while_pc,       \* position of Swarm.run_while
    driver_outcome,     \* how the driver coroutine ended (history)
    tasks_put,          \* tasks the driver has enqueued (history)
    \* ---- DBFS.cwd and the remote directories ----
    cwd,                \* DBFS.cwd
    remote_dirs,        \* the directories of the remote file system
    last_op,            \* the last public operation and its outcome (history)
    \* ---- DBFS._async_find ----
    tree,               \* the remote tree: the FileInfo of every entry
    predicates,         \* the predicate bundle of the call
    filter_cb,          \* the external filter of the call
    find_pc,            \* position inside _async_find
    pending,            \* control(): the list `pending`
    entries_found,      \* control(): the counter `entries_found`
    find_queue,         \* the queue of the walker's Swarm: the task keys
    find_worker,        \* per worker of that Swarm: what it is doing
    find_responses,     \* the PriorityQueue `response_queue`
    emitted,            \* the entries passed to update_cb, in order (history)
    listings_failed,    \* the directories whose listing raised (history)
    \* ---- DBFS.get ----
    get_src,            \* the bytes of the remote file
    get_chunk_size,     \* DBFS.chunk_size
    get_workers,        \* DBFS.workers: workers and queue places of the low Swarm
    get_pc,             \* position inside _async_get / _async_get_to_file
    get_offset,         \* _async_get_to_file: `offset`
    active_tasks,       \* _async_get_to_file: `active_tasks`
    bytes_copied,       \* _async_get_to_file: `bytes_copied`
    get_queue,          \* the queue of the low Swarm, oldest first
    get_worker,         \* per worker of the low Swarm: its chunk task
    get_responses,      \* _async_get_to_file: `response_queue`, oldest first
    tmp_file,           \* the temporary file `out`
    local_target,       \* the local file `target`
    chunks_completed,   \* offsets of the chunks completed, in order (history)
    chunks_queued,      \* the chunk tasks put on the low Swarm, in order (history)
    request_failed,     \* a request of the download ended with an error (history)
    \* ---- DBFS.put ----
    put_entry,          \* the function the upload is entered through
    put_size,           \* the size of the local file
    put_chunk_size,     \* DBFS.chunk_size
    put_overwrite,      \* the argument `overwrite`
    put_pc,             \* position inside the upload
    put_bytes_copied,   \* _async_stream_put_from_file: `bytes_copied`
    handle_size,        \* backend: the bytes received on the open handle
    remote_target,      \* backend: the file at `target`
    status_size,        \* the size get-status returned (history)
    put_error,          \* what the upload raised (history)
    created,            \* api/2.0/dbfs/create has succeeded (history)
    delete_requests,    \* the api/2.0/dbfs/delete requests sent for the target (history)
    put_requests,       \* the requests the upload has sent, in order (history)
    \* ---- DBFS.rget ----
    rget_pc,            \* position inside _async_rget
    rget_sync,          \* the argument `sync`
    rget_overwrite,     \* the argument `overwrite`
    rget_run,           \* 1 for the first rget of the command line, 2 for the second
    entries,            \* _async_rget: `entries`
    active_gets,        \* _async_rget: `active_gets`, the entries by relpath
    cb_entry,           \* find_cb: the entry whose high_swarm.put is waiting
    high_queue,         \* the queue of the high Swarm, oldest first
    high_worker,        \* per worker of the high Swarm: its transfer
    high_terminate_ix,  \* Swarm.terminate of the high Swarm: sentinels queued
    rget_responses,     \* _async_rget: `response_queue`, oldest first
    local_files,        \* the files below the local target
    local_dirs,         \* the directories at and below the local target
    reported,           \* the calls of the caller's update_cb, in order (history)
    walked,             \* the entries find passed to find_cb, in order (history)
    enqueued,           \* the relpaths queued on the high Swarm, in order (history)
    transfers_ended,    \* the _async_get calls that have ended, and how (history)
    first_run,          \* how the first run ended (history)
    \* ---- DBFS.mv ----
    mv_src_kind,        \* backend: what is at the source path
    mv_dst_kind,        \* backend: what is at the destination path
    mv_before,          \* what was at both paths when mv was called (history)
    mv_overwrite,       \* the argument `overwrite`
    mv_pc,              \* position inside _async_mv
    mv_requests,        \* the requests sent, in order, with their outcome (history)
    mv_error,           \* the error_code of what mv raised
    \* ---- DBFS._async_get and its files ----
    get_overwrite,      \* the argument `overwrite`
    remote_size,        \* the size of the remote file
    get_target,         \* what is at the local path `target`
    target_before,      \* what was there when get was called (history)
    tmp_fn,             \* the temporary file of mkstemp
    tmp_made,           \* mkstemp has made a file (history)
    get_requests,       \* the requests sent for the file (history)
    gt_pc,              \* position inside _async_get / _async_get_to_temp
    gt_error,           \* what get raised
    \* ---- FileInfo.check_predicates: one call ----
    check_fi,           \* the FileInfo the method is called on
    check_relpath,      \* the relpath argument, <<>> for None
    check_kwargs,       \* the predicates, in the order of the dict
    check_result,       \* "pending", "True", "False" or "TypeError"
    \* ---- Swarm._worker: the tasks it has run ----
    task_log,           \* per worker, the tasks it ran: key, response channel, raised (history)
    responses_taken,    \* the messages the driver has taken from response_queue (history)
    \* ---- DBFS._async_rput ----
    rput_tree,          \* per local directory, in the order of os.walk: its number of files
    rput_workers,       \* DBFS.workers: the workers and the queue places of the Swarm
    rput_pc,            \* position inside _async_rput
    rput_dir,           \* the directory control() is at
    rput_fn,            \* the next of its files to queue
    active_puts,        \* control(): active_puts
    mkdir_result,       \* per directory: "None", "ok" or "failed" (history)
    rput_queue,         \* the queue of the Swarm
    rput_worker,        \* per worker: idle, running a task, or exited
    rput_responses,     \* response_queue
    rput_reported,      \* the calls of update_cb, in order (history)
    rput_enqueued,      \* the files queued for upload, in order (history)
    uploads_ended,      \* the uploads that ended, with their outcome (history)
    \* ---- AlwaysComparable.__lt__ ----
    cmp_keys,           \* the three task keys compared
    lt,                 \* lt[i][j]: what AlwaysComparable(key i) < AlwaysComparable(key j) gave
    lt_pc,              \* the comparisons have been made or not
    \* ---- DBFS._unpack_http_response ----
    response,           \* the HTTP response: rate-limit header, content type, status, body
    unpacked            \* what _unpack_http_response returned or raised

gateVars == <<workers, max_retries, now, wait_until, semaphore, ctl_pc, retries,
              wake_at, rate_errors, os_errors, gate_seen, last_rate>>

swarmVars == <<max_workers, queue_max_size, use_priority_queue, queue, task_seq,
               worker_pc, worker_task, response_queue, driver_pc, terminate_ix,
               r, ex, run_while_pc, driver_outcome, tasks_put>>

cwdVars == <<cwd, remote_dirs, last_op>>

findVars == <<tree, predicates, filter_cb, find_pc, pending, entries_found,
              find_queue, find_worker, find_responses, emitted, listings_failed>>

getVars == <<get_src, get_chunk_size, get_workers, get_pc, get_offset, active_tasks,
             bytes_copied, get_queue, get_worker, get_responses, tmp_file,
             local_target, chunks_completed, chunks_queued, request_failed>>

putVars == <<put_entry, put_size, put_chunk_size, put_overwrite, put_pc,
             put_bytes_copied, handle_size, remote_target, status_size, put_error,
             created, delete_requests, put_requests>>

rgetVars == <<rget_pc, rget_sync, rget_overwrite, rget_run, entries, active_gets, cb_entry,
              high_queue, high_worker, high_terminate_ix, rget_responses,
              local_files, local_dirs, reported, walked, enqueued,
              transfers_ended, first_run>>

mvVars == <<mv_src_kind, mv_dst_kind, mv_before, mv_overwrite, mv_pc,
            mv_requests, mv_error>>

getTargetVars == <<get_overwrite, remote_size, get_target, target_before, tmp_fn,
                   tmp_made, get_requests, gt_pc, gt_error>>

taskLogVars == <<task_log, responses_taken>>

compareVars == <<cmp_keys, lt, lt_pc>>

unpackVars == <<response, unpacked>>

checkVars == <<check_fi, check_relpath, check_kwargs, check_result>>

rputVars == <<rput_tree, rput_workers, rput_pc, rput_dir, rput_fn, active_puts,
              mkdir_result, rput_queue, rput_worker, rput_responses, rput_reported,
              rput_enqueued, uploads_ended>>

extraVars == <<checkVars, rputVars>>

moreVars == <<taskLogVars, compareVars, unpackVars, extraVars>>

vars == <<gateVars, swarmVars, cwdVars, findVars, getVars, putVars, rgetVars, mvVars,
          getTargetVars, moreVars>>

\* What each part leaves alone.
notGate == <<swarmVars, cwdVars, findVars, getVars, putVars, rgetVars, mvVars,
    getTargetVars, moreVars>>
notSwarm == <<gateVars, cwdVars, findVars, getVars, putVars, rgetVars, mvVars,
    getTargetVars, moreVars>>
notCwd == <<gateVars, swarmVars, findVars, getVars, putVars, rgetVars, mvVars,
    getTargetVars, moreVars>>
notFind == <<gateVars, swarmVars, cwdVars, getVars, putVars, rgetVars, mvVars,
    getTargetVars, moreVars>>
notGet == <<gateVars, swarmVars, cwdVars, findVars, putVars, rgetVars, mvVars,
    getTargetVars, moreVars>>
notPut == <<gateVars, swarmVars, cwdVars, findVars, getVars, rgetVars, mvVars,
    getTargetVars, moreVars>>
\* DBFS.rget runs DBFS.find inside, so its part takes the variables of both.
notRget == <<gateVars, swarmVars, cwdVars, getVars, putVars, mvVars,
    getTargetVars, moreVars>>
notMv == <<gateVars, swarmVars, cwdVars, findVars, getVars, putVars, rgetVars,
    getTargetVars, moreVars>>
notGetTarget == <<gateVars, swarmVars, cwdVars, findVars, getVars, putVars, rgetVars,
    mvVars, moreVars>>
\* The part that logs the tasks of a Swarm takes the variables of the Swarm too.
notSwarmLoad == <<gateVars, cwdVars, findVars, getVars, putVars, rgetVars, mvVars,
    getTargetVars, compareVars, unpackVars, extraVars>>
notCompare == <<gateVars, swarmVars, cwdVars, findVars, getVars, putVars, rgetVars, mvVars,
    getTargetVars, taskLogVars, unpackVars, extraVars>>
notUnpack == <<gateVars, swarmVars, cwdVars, findVars, getVars, putVars, rgetVars, mvVars,
    getTargetVars, taskLogVars, compareVars, extraVars>>
notCheck == <<gateVars, swarmVars, cwdVars, findVars, getVars, putVars, rgetVars, mvVars,
    getTargetVars, taskLogVars, compareVars, unpackVars, rputVars>>
notRput == <<gateVars, swarmVars, cwdVars, findVars, getVars, putVars, rgetVars, mvVars,
    getTargetVars, taskLogVars, compareVars, unpackVars, checkVars>>

Min(a, b) == IF a <= b THEN a ELSE b
Max(a, b) == IF a >= b THEN a ELSE b

(***************************************************************************)
(*                     DBFS._async_control: the gate                       *)
(***************************************************************************)

\* Bounds of the gate model.
NumRequests == 2
MaxWorkers == 2
MaxRetriesCfg == 1
MaxTime == 4
MaxRateErrors == 3
\* Clock ticks per second.
Resolution == 1
\* DBFS(error_delay=..., error_delay_increment=...), in seconds.
error_delay == 1
error_delay_increment == 1

\* dbfs.py:142  self.wait_until = time.time() + 1
RateDelay == 1

Requests == 1..NumRequests

Seconds(s) == s * Resolution

\* No RateError yet: a time so far back that its cooldown is over at tick 0.
NoRate == 0 - Seconds(RateDelay)

GateIdle ==
    /\ workers = 1
    /\ max_retries = 0
    /\ now = 0
    /\ wait_until = 0
    /\ semaphore = 0
    /\ ctl_pc = [i \in Requests |-> "off"]
    /\ retries = [i \in Requests |-> 0]
    /\ wake_at = [i \in Requests |-> 0]
    /\ rate_errors = [i \in Requests |-> 0]
    /\ os_errors = [i \in Requests |-> 0]
    /\ gate_seen = [i \in Requests |-> NoRate]
    /\ last_rate = NoRate

\* DBFS.__init__: wait_until = 0, semaphore = asyncio.Semaphore(workers)
GateInit ==
    /\ workers \in 1..MaxWorkers
    /\ max_retries \in 0..MaxRetriesCfg
    /\ now = 0
    /\ wait_until = 0
    /\ semaphore = workers
    /\ ctl_pc = [i \in Requests |-> "idle"]
    /\ retries = [i \in Requests |-> 0]
    /\ wake_at = [i \in Requests |-> 0]
    /\ rate_errors = [i \in Requests |-> 0]
    /\ os_errors = [i \in Requests |-> 0]
    /\ gate_seen = [i \in Requests |-> NoRate]
    /\ last_rate = NoRate

\* asyncio.Semaphore: acquire() suspends the caller while no permit is free.
SemaphoreLocked_NoLimit(value) == FALSE
SemaphoreLocked(value) == value <= 0

\* dbfs.py:141-144: a RateError leaves `retries` as it is.
RetriesAfterRateError_Billed(n) == n + 1
RetriesAfterRateError(n) == n

\* dbfs.py:142: the cooldown set by a RateError received at tick t.
WaitUntilAfterRateError_NoCooldown(t) == t
WaitUntilAfterRateError(t) == t + Seconds(RateDelay)

\* dbfs.py:146: the transient error is surfaced once retries > max_retries.
RetriesExhausted(n) == n > max_retries

\* dbfs.py:150: the backoff before the next attempt.
ErrorSleep(n) == Seconds(error_delay + error_delay_increment * n)

\* dbfs.py:134, 150: the sleep is inside `async with self.semaphore`, the
\* permits stay as they are while the request sleeps.
SemaphoreInErrorSleep_Released(value) == value + 1
SemaphoreInErrorSleep(value) == value

\* dbfs.py:134  leaving `async with self.semaphore`, by return, by an
\* exception or at the end of the block, releases the permit.
SemaphoreAfterExit_Kept(value) == value
SemaphoreAfterExit(value) == value + 1

RECURSIVE SumUpTo(_, _)
SumUpTo(f, n) == IF n = 0 THEN 0 ELSE f[n] + SumUpTo(f, n - 1)
\* RateError responses sent by the backend so far, to all requests.
TotalRateErrors == SumUpTo(rate_errors, NumRequests)

\* dbfs.py:132: a request enters _async_control.
ControlBegin(i) ==
    /\ ctl_pc[i] = "idle"
    /\ ctl_pc' = [ctl_pc EXCEPT ![i] = "acquire"]
    /\ retries' = [retries EXCEPT ![i] = 0]
    /\ UNCHANGED <<workers, max_retries, now, wait_until, semaphore, wake_at,
                   rate_errors, os_errors, gate_seen, last_rate>>

\* dbfs.py:134-140: take a permit, evaluate the cooldown; sleep, or start
\* the HTTP call at once (no suspension between line 136 and cb()).
ControlAcquire(i) ==
    /\ ctl_pc[i] = "acquire"
    /\ ~SemaphoreLocked(semaphore)
    /\ semaphore' = semaphore - 1
    /\ gate_seen' = [gate_seen EXCEPT ![i] = last_rate]
    /\ LET delta == wait_until - now IN
       IF delta > 0
       THEN /\ ctl_pc' = [ctl_pc EXCEPT ![i] = "rate_sleep"]
            /\ wake_at' = [wake_at EXCEPT ![i] = now + delta]
       ELSE /\ ctl_pc' = [ctl_pc EXCEPT ![i] = "in_cb"]
            /\ UNCHANGED wake_at
    /\ UNCHANGED <<workers, max_retries, now, wait_until, retries,
                   rate_errors, os_errors, last_rate>>

\* dbfs.py:139-140: the cooldown sleep ends, the HTTP call starts.
ControlWake(i) ==
    /\ ctl_pc[i] = "rate_sleep"
    /\ now >= wake_at[i]
    /\ ctl_pc' = [ctl_pc EXCEPT ![i] = "in_cb"]
    /\ wake_at' = [wake_at EXCEPT ![i] = 0]
    /\ UNCHANGED <<workers, max_retries, now, wait_until, semaphore, retries,
                   rate_errors, os_errors, gate_seen, last_rate>>

\* dbfs.py:140: cb() returns; the permit is released on leaving the block.
ControlReturn(i) ==
    /\ ctl_pc[i] = "in_cb"
    /\ ctl_pc' = [ctl_pc EXCEPT ![i] = "returned"]
    /\ semaphore' = SemaphoreAfterExit(semaphore)
    /\ gate_seen' = [gate_seen EXCEPT ![i] = NoRate]
    /\ UNCHANGED <<workers, max_retries, now, wait_until, retries, wake_at,
                   rate_errors, os_errors, last_rate>>

\* dbfs.py:141-144: cb() raises RateError; the cooldown is set, the permit
\* released and the loop starts over.
ControlRateError(i) ==
    /\ ctl_pc[i] = "in_cb"
    /\ TotalRateErrors < MaxRateErrors
    /\ wait_until' = WaitUntilAfterRateError(now)
    /\ retries' = [retries EXCEPT ![i] = RetriesAfterRateError(@)]
    /\ semaphore' = SemaphoreAfterExit(semaphore)
    /\ ctl_pc' = [ctl_pc EXCEPT ![i] = "acquire"]
    /\ rate_errors' = [rate_errors EXCEPT ![i] = @ + 1]
    /\ last_rate' = now
    /\ gate_seen' = [gate_seen EXCEPT ![i] = NoRate]
    /\ UNCHANGED <<workers, max_retries, now, wake_at, os_errors>>

\* dbfs.py:145-150: cb() raises OSError; surfaced when the retries are
\* exhausted, else the request sleeps with its permit.
ControlOSError(i) ==
    /\ ctl_pc[i] = "in_cb"
    /\ os_errors' = [os_errors EXCEPT ![i] = @ + 1]
    /\ gate_seen' = [gate_seen EXCEPT ![i] = NoRate]
    /\ IF RetriesExhausted(retries[i])
       THEN /\ ctl_pc' = [ctl_pc EXCEPT ![i] = "raised_oserror"]
            /\ semaphore' = SemaphoreAfterExit(semaphore)
            /\ UNCHANGED wake_at
       ELSE /\ ctl_pc' = [ctl_pc EXCEPT ![i] = "error_sleep"]
            /\ wake_at' = [wake_at EXCEPT ![i] = now + ErrorSleep(retries[i])]
            /\ semaphore' = SemaphoreInErrorSleep(semaphore)
    /\ UNCHANGED <<workers, max_retries, now, wait_until, retries,
                   rate_errors, last_rate>>

\* dbfs.py:150-151: the backoff ends; retries += 1, the permit is released
\* and the loop starts over.
ControlBackoffEnd(i) ==
    /\ ctl_pc[i] = "error_sleep"
    /\ now >= wake_at[i]
    /\ retries' = [retries EXCEPT ![i] = @ + 1]
    /\ semaphore' = SemaphoreAfterExit(semaphore)
    /\ ctl_pc' = [ctl_pc EXCEPT ![i] = "acquire"]
    /\ wake_at' = [wake_at EXCEPT ![i] = 0]
    /\ UNCHANGED <<workers, max_retries, now, wait_until,
                   rate_errors, os_errors, gate_seen, last_rate>>

\* dbfs.py:153-155: any other exception is raised at once.
ControlOtherError(i) ==
    /\ ctl_pc[i] = "in_cb"
    /\ ctl_pc' = [ctl_pc EXCEPT ![i] = "raised_other"]
    /\ semaphore' = SemaphoreAfterExit(semaphore)
    /\ gate_seen' = [gate_seen EXCEPT ![i] = NoRate]
    /\ UNCHANGED <<workers, max_retries, now, wait_until, retries, wake_at,
                   rate_errors, os_errors, last_rate>>

\* time.time() advances.
Tick ==
    /\ now < MaxTime
    /\ now' = now + 1
    /\ UNCHANGED <<workers, max_retries, wait_until, semaphore, ctl_pc,
                   retries, wake_at, rate_errors, os_errors,
                   gate_seen, last_rate>>


\* Requests whose HTTP call has started and not yet ended.
InFlight == {i \in Requests : ctl_pc[i] = "in_cb"}
Ended(i) == ctl_pc[i] \in {"returned", "raised_oserror", "raised_other"}
\* The step in which request i starts its HTTP call.
StartsCall(i) == ctl_pc[i] # "in_cb" /\ ctl_pc'[i] = "in_cb"

\* C1: at every moment at most `workers` requests of the Session are inside
\* their HTTP call, whichever task issued them.
C1_InFlightAtMostWorkers == Cardinality(InFlight) <= workers

\* C1 witness: every permit is taken by a call in flight while another
\* request waits for a permit.
C1_Witness ==
    /\ Cardinality(InFlight) = workers
    /\ \E i \in Requests : ctl_pc[i] = "acquire"

\* Requests that hold a permit of the semaphore.
Holders == {i \in Requests : ctl_pc[i] \in {"rate_sleep", "in_cb", "error_sleep"}}

\* C29: a request that sleeps in the backoff after a transient I/O error
\* holds its permit all through the sleep: the free permits are the
\* `workers` less one per request inside the gate, the sleeper included, and
\* while one sleeps at most workers - 1 other requests are in flight.
C29_BackoffKeepsPermit ==
    /\ semaphore = workers - Cardinality(Holders)
    /\ \A i \in Requests :
           ctl_pc[i] = "error_sleep" => Cardinality(InFlight \ {i}) <= workers - 1

\* C29 witness: the only permit is with a request in its backoff, the sleep
\* is not over, and another request waits for the permit.
C29_Witness ==
    \E i, j \in Requests :
        /\ workers = 1
        /\ ctl_pc[i] = "error_sleep"
        /\ now < wake_at[i]
        /\ ctl_pc[j] = "acquire"
        /\ os_errors[j] > 0

\* The steps in which request i leaves the block that holds the permit.
LeavesGate(i) == i \in Holders /\ ctl_pc'[i] \notin {"rate_sleep", "in_cb", "error_sleep"}
NoneInProgress == \A i \in Requests : ctl_pc[i] = "idle" \/ Ended(i)

\* C39: the permit of a request is released on every way out of the gate:
\* when the call returns, when it raises an error that is not retried, when
\* the retries of a transient error are exhausted, and before the next
\* attempt after a rate-limited response or a backoff; so whenever no
\* request is in progress all the `workers` permits are free.
C39_PermitReleasedOnEveryExit ==
    /\ [](NoneInProgress => semaphore = workers)
    /\ [][\A i \in Requests :
             /\ LeavesGate(i) => semaphore' = semaphore + 1
             /\ (Ended(i)' /\ ~Ended(i)) => LeavesGate(i)
             /\ (ctl_pc[i] = "in_cb" /\ ctl_pc'[i] = "acquire") => LeavesGate(i)]_vars

\* C39 witness: no request is in progress; one has raised its transient
\* error after its retries, the other has raised an error that is not
\* retried after a rate-limited response and a second attempt.
C39_Witness ==
    /\ NoneInProgress
    /\ \E i, j \in Requests :
           /\ ctl_pc[i] = "raised_oserror"
           /\ os_errors[i] >= 2
           /\ ctl_pc[j] = "raised_other"
           /\ rate_errors[j] >= 1

\* C6 as stated: when a request ends, its retry counter equals the number
\* of transient I/O errors it received.
C6_RetriesEqualTransientErrors ==
    \A i \in Requests : Ended(i) => retries[i] = os_errors[i]

\* C6 amended: when a request ends by returning or by a non-retryable error
\* its retry counter equals the number M of transient errors it received,
\* and when it ends by surfacing a transient error the counter is M - 1 (the
\* surfaced error is not billed); rate-limited responses never change the
\* counter and a request fails on a transient error only after more than
\* max_retries of them.
C6_RetriesBilled ==
    \A i \in Requests :
        /\ ctl_pc[i] \in {"returned", "raised_other"} => retries[i] = os_errors[i]
        /\ ctl_pc[i] = "raised_oserror" =>
              /\ retries[i] = os_errors[i] - 1
              /\ os_errors[i] > max_retries

\* C6 witness: three rate-limited responses and one transient error with
\* max_retries = 1, and the request returned.
C6_Witness ==
    \E i \in Requests :
        /\ ctl_pc[i] = "returned"
        /\ max_retries = 1
        /\ rate_errors[i] = 3
        /\ os_errors[i] = 1
        /\ retries[i] = 1

\* C7: a request that only meets transient I/O errors is retried at most
\* max_retries times, that is it makes at most max_retries + 1 attempts.
C7_AtMostMaxRetries ==
    \A i \in Requests :
        rate_errors[i] = 0 =>
            /\ retries[i] <= max_retries
            /\ os_errors[i] <= max_retries + 1

\* C8 as stated: after a rate-limited response at time t no request starts
\* its HTTP call before t + 1 second.
C8_NoCallWithinCooldown ==
    [][\A i \in Requests :
          StartsCall(i) => now >= last_rate + Seconds(RateDelay)]_vars

\* C8 amended: a request that takes its permit and evaluates the cooldown
\* (dbfs.py:136) after a rate-limited response received at time t starts its
\* HTTP call no earlier than t + 1 second, whichever request was
\* rate-limited; a request already sleeping inside the gate when the
\* response arrives is not delayed again.
C8_CooldownSeenAtGate ==
    [][\A i \in Requests :
          StartsCall(i) => now >= gate_seen'[i] + Seconds(RateDelay)]_vars

\* C8 witness: a request that was never rate-limited itself entered the gate
\* after another request's rate-limited response and is now in its call.
C8_Witness ==
    \E i, j \in Requests :
        /\ i # j
        /\ ctl_pc[i] = "in_cb"
        /\ rate_errors[i] = 0
        /\ rate_errors[j] > 0
        /\ last_rate >= 0
        /\ gate_seen[i] = last_rate

(***************************************************************************)
(*              DBFS._unpack_http_response: the response read              *)
(***************************************************************************)

\* dbfs.py:97-129.  A response is its x-envoy-ratelimited header being "true"
\* or not, its content-type header ("None" when it has none), its status and
\* its body: a JSON object with error_code and message, a JSON object
\* without them, bytes that are no JSON, or a body whose read fails with
\* OSError.
ContentTypes == {"application/json", "text/html", "None"}
Statuses == {200, 403, 429, 500}
ErrorBody(error_code) == [kind |-> "error", error_code |-> error_code]
PlainBody == [kind |-> "object", error_code |-> "None"]
Bodies ==
    {ErrorBody("RESOURCE_ALREADY_EXISTS"), ErrorBody("IO_ERROR"), PlainBody,
     [kind |-> "invalid", error_code |-> "None"],
     [kind |-> "OSError", error_code |-> "None"]}

NoResponse ==
    [ratelimited |-> FALSE, content_type |-> "None", status |-> 200, body |-> PlainBody]

Pending == [outcome |-> "pending", data |-> PlainBody, error_code |-> "None"]
Raised(exception, error_code) ==
    [outcome |-> exception, data |-> PlainBody, error_code |-> error_code]
Returned(data) == [outcome |-> "return", data |-> data, error_code |-> "None"]

\* dbfs.py:100  response.headers.get("x-envoy-ratelimited", None) == "true"
RateLimited_OnStatus429(resp) == resp.ratelimited /\ resp.status = 429
RateLimited(resp) == resp.ratelimited

\* dbfs.py:97-129  _unpack_http_response(response)
UnpackHttpResponse(resp) ==
    IF RateLimited(resp) THEN Raised("RateError", "None")
    ELSE IF resp.content_type = "None" THEN Raised("KeyError", "None")
    ELSE IF resp.content_type # "application/json" THEN Raised("Exception", "None")
    ELSE IF resp.body.kind = "OSError" THEN Raised("OSError", "None")
    ELSE IF resp.body.kind = "invalid" THEN Raised("Exception", "None")
    ELSE IF resp.status = 200 THEN Returned(resp.body)
    ELSE IF resp.body.kind # "error" THEN Raised("Exception", "None")
    ELSE Raised("APIError", resp.body.error_code)

UnpackIdle ==
    /\ response = NoResponse
    /\ unpacked = [outcome |-> "idle", data |-> PlainBody, error_code |-> "None"]

UnpackInit ==
    /\ response \in [ratelimited : BOOLEAN, content_type : ContentTypes,
                      status : Statuses, body : Bodies]
    /\ unpacked = Pending

Unpack ==
    /\ unpacked = Pending
    /\ unpacked' = UnpackHttpResponse(response)
    /\ UNCHANGED response

UnpackNext == Unpack /\ UNCHANGED notUnpack

\* dbfs.py:141-155  what _async_control does with the exception: RateError
\* and OSError are tried again, everything else is raised to the caller
Retried(exception) == exception \in {"RateError", "OSError"}

\* C30: a response with the rate-limit header raises RateError whatever its
\* status, content type and body; without the header, a response whose
\* content type is not application/json raises an error that is not tried
\* again; an application/json response with status 200 returns the parsed
\* body; and an application/json response with another status and a body
\* with error_code and message raises APIError with that error_code.
C30_ResponseClassified ==
    unpacked.outcome \notin {"idle", "pending"} =>
        /\ response.ratelimited => unpacked.outcome = "RateError"
        /\ (~response.ratelimited /\ response.content_type # "application/json") =>
               (unpacked.outcome \notin {"return", "APIError"}
                /\ ~Retried(unpacked.outcome))
        /\ (/\ ~response.ratelimited
            /\ response.content_type = "application/json"
            /\ response.body.kind \in {"object", "error"}) =>
               /\ response.status = 200 => unpacked = Returned(response.body)
               /\ (response.status # 200 /\ response.body.kind = "error") =>
                      unpacked = Raised("APIError", response.body.error_code)

\* C30 witness: the header on a response that is otherwise a good answer.
C30_Witness ==
    /\ response.ratelimited
    /\ response.status = 200
    /\ response.content_type = "application/json"
    /\ response.body = PlainBody
    /\ unpacked.outcome = "RateError"

(***************************************************************************)
(*                          Strings and task keys                          *)
(***************************************************************************)

\* A Python str is a sequence of one-character strings; ord() gives the
\* code point that str comparison goes by.
Ord(c) ==
    CASE c = "-" -> 45
      [] c = "." -> 46
      [] c = "/" -> 47
      [] c = "a" -> 97
      [] c = "b" -> 98
      [] c = "c" -> 99
      [] c = "d" -> 100

\* str.__lt__: lexicographic by code point, a proper prefix is smaller.
StrLt(a, b) ==
    \E k \in 1..(Min(Len(a), Len(b)) + 1) :
        /\ \A j \in 1..(k - 1) : a[j] = b[j]
        /\ \/ k > Len(a) /\ k <= Len(b)
           \/ k <= Len(a) /\ k <= Len(b) /\ Ord(a[k]) < Ord(b[k])

\* A task key is None, an int or a str: <<type, int value, str value>>.
NoneKey == <<"None", 0, <<>>>>
IntKey(n) == <<"int", n, <<>>>>
StrKey(str) == <<"str", 0, str>>

\* swarm.py:12-20  AlwaysComparable.__lt__(a, b)
AlwaysComparableLt(a, b) ==
    IF b[1] = "None" THEN TRUE
    ELSE IF a[1] = "None" THEN FALSE
    ELSE IF a[1] = b[1]
         THEN (IF a[1] = "int" THEN a[2] < b[2] ELSE StrLt(a[3], b[3]))
    ELSE IF a[1] = "int" THEN TRUE
    ELSE FALSE

\* The keys compared: None, integers, and strings the empty one included.
CompareKeys ==
    {NoneKey, IntKey(0), IntKey(1), StrKey(<<>>), StrKey(<<"a">>), StrKey(<<"b">>)}

CompareIdle ==
    /\ cmp_keys = <<NoneKey, NoneKey, NoneKey>>
    /\ lt = [i \in 1..3 |-> [j \in 1..3 |-> FALSE]]
    /\ lt_pc = "idle"

CompareInit ==
    /\ cmp_keys \in CompareKeys \X CompareKeys \X CompareKeys
    /\ lt = [i \in 1..3 |-> [j \in 1..3 |-> FALSE]]
    /\ lt_pc = "start"

\* swarm.py:12-20  AlwaysComparable(cmp_keys[i]) < AlwaysComparable(cmp_keys[j]) for
\* every pair of the three keys
Compare ==
    /\ lt_pc = "start"
    /\ lt' = [i \in 1..3 |-> [j \in 1..3 |-> AlwaysComparableLt(cmp_keys[i], cmp_keys[j])]]
    /\ lt_pc' = "done"
    /\ UNCHANGED cmp_keys

CompareNext == Compare /\ UNCHANGED notCompare

\* C27: the comparison of task keys is a strict total order on None,
\* integers and strings (irreflexive, asymmetric, transitive, and one of two
\* different keys is below the other), with None below every other key,
\* every integer below every string, and integers and strings among
\* themselves in their natural order.
C27_KeyOrderStrictTotal ==
    lt_pc = "done" =>
        \A i, j, k \in 1..3 :
            /\ ~lt[i][i]
            /\ ~(lt[i][j] /\ lt[j][i])
            /\ (lt[i][j] /\ lt[j][k]) => lt[i][k]
            /\ cmp_keys[i] # cmp_keys[j] => (lt[i][j] \/ lt[j][i])
            /\ (cmp_keys[i] = NoneKey /\ cmp_keys[j] # NoneKey) => lt[i][j]
            /\ (cmp_keys[i][1] = "int" /\ cmp_keys[j][1] = "str") => lt[i][j]
            /\ (cmp_keys[i][1] = "int" /\ cmp_keys[j][1] = "int") =>
                   (lt[i][j] <=> cmp_keys[i][2] < cmp_keys[j][2])
            /\ (cmp_keys[i][1] = "str" /\ cmp_keys[j][1] = "str") =>
                   (lt[i][j] <=> StrLt(cmp_keys[i][3], cmp_keys[j][3]))

(***************************************************************************)
(*                        Swarm (src/fastdbfs/swarm.py)                    *)
(***************************************************************************)

\* Bounds of the swarm model.
MaxSwarmWorkers == 2
MaxQueueSize == 2
MaxTasks == 1

Workers == 1..MaxSwarmWorkers
ActiveWorkers == 1..max_workers

\* The string keys the driver uses besides the automatic integer keys.
DriverStrKeys == {<<"/", "a">>, <<"/", "b">>}

\* swarm.py:103  (AlwaysComparable(task_key), task, response_queue, kwargs)
Wrapper(key, cb, has_response) == [key |-> key, cb |-> cb, response |-> has_response]
NoWrapper == Wrapper(NoneKey, "None", FALSE)

SwarmIdle ==
    /\ max_workers = 0
    /\ queue_max_size = 0
    /\ use_priority_queue = FALSE
    /\ queue = <<>>
    /\ task_seq = 0
    /\ worker_pc = [w \in Workers |-> "off"]
    /\ worker_task = [w \in Workers |-> NoWrapper]
    /\ response_queue = <<>>
    /\ driver_pc = "off"
    /\ terminate_ix = 0
    /\ r = "None"
    /\ ex = "None"
    /\ run_while_pc = "off"
    /\ driver_outcome = "None"
    /\ tasks_put = 0

\* swarm.py:23-30 Swarm.__init__ and swarm.py:38-55: run_while has started
\* the wrapper and the workers.
SwarmInit ==
    /\ max_workers \in 1..MaxSwarmWorkers
    /\ queue_max_size \in 0..MaxQueueSize
    /\ use_priority_queue \in BOOLEAN
    /\ queue = <<>>
    /\ task_seq = 0
    /\ worker_pc = [w \in Workers |-> IF w <= max_workers THEN "get" ELSE "off"]
    /\ worker_task = [w \in Workers |-> NoWrapper]
    /\ response_queue = <<>>
    /\ driver_pc = "task"
    /\ terminate_ix = 0
    /\ r = "None"
    /\ ex = "None"
    /\ run_while_pc = "gather"
    /\ driver_outcome = "None"
    /\ tasks_put = 0

\* asyncio.Queue.full(): maxsize <= 0 means unbounded.
QueueFull_Never == FALSE
QueueFull == queue_max_size > 0 /\ Len(queue) >= queue_max_size

RemoveAt(seq, k) == SubSeq(seq, 1, k - 1) \o SubSeq(seq, k + 1, Len(seq))

\* A queue whose get() returns any of the waiting wrappers.
GetPositions_Any == {k \in 1..Len(queue) : TRUE}

\* The positions queue.get() may return: the head of a FIFO queue, a
\* smallest wrapper of a priority queue (heapq compares the keys).
GetPositions ==
    IF use_priority_queue
    THEN {k \in 1..Len(queue) :
            \A j \in 1..Len(queue) : ~AlwaysComparableLt(queue[j].key, queue[k].key)}
    ELSE {k \in 1..Len(queue) : k = 1}

\* swarm.py:99-105  Swarm.put: suspends while the queue is full.
SwarmPut(cb, task_key, has_response) ==
    /\ ~QueueFull
    /\ IF task_key = NoneKey
       THEN /\ queue' = Append(queue, Wrapper(IntKey(task_seq), cb, has_response))
            /\ task_seq' = task_seq + 1
       ELSE /\ queue' = Append(queue, Wrapper(task_key, cb, has_response))
            /\ UNCHANGED task_seq

\* The driver coroutine enqueues a task, `limit` of them at most.
DriverPutUpTo(limit, task_key, has_response) ==
    /\ driver_pc = "task"
    /\ tasks_put < limit
    /\ SwarmPut("task", task_key, has_response)
    /\ tasks_put' = tasks_put + 1
    /\ UNCHANGED <<max_workers, queue_max_size, use_priority_queue, worker_pc,
                   worker_task, response_queue, driver_pc, terminate_ix, r, ex,
                   run_while_pc, driver_outcome>>

DriverPut(task_key, has_response) == DriverPutUpTo(MaxTasks, task_key, has_response)

\* The driver coroutine takes a response from its response channel.
DriverGetResponse ==
    /\ driver_pc = "task"
    /\ response_queue # <<>>
    /\ response_queue' = Tail(response_queue)
    /\ UNCHANGED <<max_workers, queue_max_size, use_priority_queue, queue, task_seq,
                   worker_pc, worker_task, driver_pc, terminate_ix, r, ex,
                   run_while_pc, driver_outcome, tasks_put>>

\* swarm.py:46-51: what the wrapper records when the driver coroutine ends.
WrapperResult(outcome) == IF outcome = "raised" THEN "None" ELSE "result"
WrapperException_Swallowed(outcome) == "None"
WrapperException(outcome) == IF outcome = "raised" THEN "error" ELSE "None"

\* swarm.py:46-52: the driver coroutine returns or raises; the wrapper
\* goes on to terminate().
DriverEnd(outcome) ==
    /\ driver_pc = "task"
    /\ driver_pc' = "terminate"
    /\ r' = WrapperResult(outcome)
    /\ ex' = WrapperException(outcome)
    /\ driver_outcome' = outcome
    /\ terminate_ix' = 0
    /\ UNCHANGED <<max_workers, queue_max_size, use_priority_queue, queue, task_seq,
                   worker_pc, worker_task, response_queue, run_while_pc, tasks_put>>

\* swarm.py:71: the number of sentinels terminate() enqueues.
SentinelCount_OneShort == max_workers - 1
SentinelCount == max_workers

\* swarm.py:69-72  Swarm.terminate: one sentinel per iteration.
TerminatePut ==
    /\ driver_pc = "terminate"
    /\ terminate_ix < SentinelCount
    /\ SwarmPut("None", IntKey(terminate_ix), FALSE)
    /\ terminate_ix' = terminate_ix + 1
    /\ UNCHANGED <<max_workers, queue_max_size, use_priority_queue, worker_pc,
                   worker_task, response_queue, driver_pc, r, ex, run_while_pc,
                   driver_outcome, tasks_put>>

\* swarm.py:52: terminate() has returned, the wrapper ends.
WrapperEnd ==
    /\ driver_pc = "terminate"
    /\ terminate_ix >= SentinelCount
    /\ driver_pc' = "done"
    /\ UNCHANGED <<max_workers, queue_max_size, use_priority_queue, queue, task_seq,
                   worker_pc, worker_task, response_queue, terminate_ix, r, ex,
                   run_while_pc, driver_outcome, tasks_put>>

\* swarm.py:80-84: a worker takes a wrapper; a sentinel ends the worker.
WorkerGet(w) ==
    /\ worker_pc[w] = "get"
    /\ \E k \in GetPositions :
         /\ queue' = RemoveAt(queue, k)
         /\ IF queue[k].cb = "None"
            THEN /\ worker_pc' = [worker_pc EXCEPT ![w] = "exited"]
                 /\ UNCHANGED worker_task
            ELSE /\ worker_pc' = [worker_pc EXCEPT ![w] = "run"]
                 /\ worker_task' = [worker_task EXCEPT ![w] = queue[k]]
    /\ UNCHANGED <<max_workers, queue_max_size, use_priority_queue, task_seq,
                   response_queue, driver_pc, terminate_ix, r, ex, run_while_pc,
                   driver_outcome, tasks_put>>

\* swarm.py:85-92: the message for a task that returned or raised.
TaskResponse_ValueOnly(task_key, raised) == <<task_key, "value", "None">>
TaskResponse(task_key, raised) ==
    IF raised THEN <<task_key, "None", "error">> ELSE <<task_key, "value", "None">>

\* swarm.py:85-97: the task ends; its response is queued and the worker
\* goes back to the queue.
WorkerTaskEnd(w, raised) ==
    /\ worker_pc[w] = "run"
    /\ response_queue' =
         IF worker_task[w].response
         THEN Append(response_queue, TaskResponse(worker_task[w].key, raised))
         ELSE response_queue
    /\ worker_pc' = [worker_pc EXCEPT ![w] = "get"]
    /\ worker_task' = [worker_task EXCEPT ![w] = NoWrapper]
    /\ UNCHANGED <<max_workers, queue_max_size, use_priority_queue, queue, task_seq,
                   driver_pc, terminate_ix, r, ex, run_while_pc, driver_outcome, tasks_put>>

AllWorkersExited == \A w \in ActiveWorkers : worker_pc[w] = "exited"

\* swarm.py:55-61: gather() is over; run_while raises ex or returns r.
RunWhileEnd ==
    /\ run_while_pc = "gather"
    /\ driver_pc = "done"
    /\ AllWorkersExited
    /\ run_while_pc' = IF ex # "None" THEN "raised" ELSE "returned"
    /\ UNCHANGED <<max_workers, queue_max_size, use_priority_queue, queue, task_seq,
                   worker_pc, worker_task, response_queue, driver_pc, terminate_ix,
                   r, ex, driver_outcome, tasks_put>>

DriverKeys == {NoneKey} \cup {StrKey(str) : str \in DriverStrKeys}

\* C9: once the driver coroutine has ended, every worker eventually exits
\* and run_while ends; run_while ends only after every worker has exited,
\* raising the driver's error if the driver raised and returning the
\* driver's result otherwise.
C9_RunWhileEnds ==
    /\ [](run_while_pc \in {"returned", "raised"} =>
            /\ AllWorkersExited
            /\ driver_outcome = "raised" => (run_while_pc = "raised" /\ ex = "error")
            /\ driver_outcome = "returned" => (run_while_pc = "returned" /\ r = "result"))
    /\ (driver_outcome # "None") ~> (run_while_pc \in {"returned", "raised"})

\* C9 witness: the driver raised while a worker was still executing a task
\* and tasks were waiting; run_while has re-raised.
C9_Witness ==
    /\ run_while_pc = "raised"
    /\ driver_outcome = "raised"
    /\ max_workers = MaxSwarmWorkers
    /\ tasks_put = MaxTasks
    /\ response_queue # <<>>

(***************************************************************************)
(*                  Swarm._worker: the tasks of a busy Swarm               *)
(***************************************************************************)

\* The Swarm of SpecSwarm with a driver that queues MaxLoadTasks tasks, more
\* than there are workers or places in the queue, before it ends, and a log
\* of the tasks each worker has run to their end.
MaxLoadTasks == 2

TaskLogIdle == task_log = [w \in Workers |-> <<>>] /\ responses_taken = <<>>

\* swarm.py:85-92  value = await cb(session, **kwargs): the task that worker
\* w ran has returned or raised
TaskEnded(w, raised) ==
    [key |-> worker_task[w].key, response |-> worker_task[w].response, raised |-> raised]

\* The workers are alike: of those waiting at the queue the first takes the
\* next wrapper.
FirstWaiting(w) == \A v \in ActiveWorkers : v < w => worker_pc[v] # "get"

SwarmLoadNext ==
    \/ \E b \in BOOLEAN :
           DriverPutUpTo(MaxLoadTasks, NoneKey, b)
           /\ UNCHANGED taskLogVars /\ UNCHANGED notSwarmLoad
    \/ /\ DriverGetResponse
       /\ responses_taken' = Append(responses_taken, Head(response_queue))
       /\ UNCHANGED task_log /\ UNCHANGED notSwarmLoad
    \/ \E o \in {"returned", "raised"} :
           /\ tasks_put = MaxLoadTasks
           /\ DriverEnd(o)
           /\ UNCHANGED taskLogVars /\ UNCHANGED notSwarmLoad
    \/ TerminatePut /\ UNCHANGED taskLogVars /\ UNCHANGED notSwarmLoad
    \/ WrapperEnd /\ UNCHANGED taskLogVars /\ UNCHANGED notSwarmLoad
    \/ \E w \in ActiveWorkers :
           /\ FirstWaiting(w)
           /\ WorkerGet(w)
           /\ UNCHANGED taskLogVars /\ UNCHANGED notSwarmLoad
    \/ \E w \in ActiveWorkers, raised \in BOOLEAN :
           /\ WorkerTaskEnd(w, raised)
           /\ task_log' = [task_log EXCEPT ![w] = Append(@, TaskEnded(w, raised))]
           /\ UNCHANGED responses_taken /\ UNCHANGED notSwarmLoad
    \/ RunWhileEnd /\ UNCHANGED taskLogVars /\ UNCHANGED notSwarmLoad

\* C26: when a task that has a response channel ends, one message
\* (key, value, err) is added to that channel, with err set and value empty
\* if and only if the task raised; a task without a channel adds none, and
\* nothing else adds a message; the worker of a task that ended, raised or
\* not, is back at the queue for its next task.
C26_OneResponsePerTask ==
    [][/\ \A w \in ActiveWorkers :
             (worker_pc[w] = "run" /\ worker_pc'[w] # "run") =>
                 /\ worker_pc'[w] = "get"
                 /\ Len(task_log'[w]) = Len(task_log[w]) + 1
                 /\ LET t == task_log'[w][Len(task_log'[w])] IN
                    /\ t.key = worker_task[w].key
                    /\ IF worker_task[w].response
                       THEN /\ Len(response_queue') = Len(response_queue) + 1
                            /\ SubSeq(response_queue', 1, Len(response_queue))
                                   = response_queue
                            /\ LET m == response_queue'[Len(response_queue')] IN
                               /\ m[1] = t.key
                               /\ (m[3] # "None") <=> t.raised
                               /\ (m[2] = "None") <=> t.raised
                       ELSE response_queue' = response_queue
       /\ Len(response_queue') > Len(response_queue) =>
             \E w \in ActiveWorkers : worker_pc[w] = "run" /\ worker_pc'[w] = "get"]_vars

\* C26 witness: a task with a response channel raised, its error message
\* was queued, and the same worker has since run another task to its end.
C26_Witness ==
    \E w \in ActiveWorkers :
        /\ Len(task_log[w]) >= 2
        /\ task_log[w][1].raised
        /\ task_log[w][1].response
        /\ \E k \in 1..Len(response_queue) :
               response_queue[k] = <<task_log[w][1].key, "None", "error">>

Running == {w \in Workers : worker_pc[w] = "run"}

\* The tasks that were run to their end, as places of the log, and the
\* messages pushed so far: those waiting in response_queue and those the
\* driver has taken.
LogPlaces == {p \in ActiveWorkers \X (1..MaxLoadTasks) : p[2] <= Len(task_log[p[1]])}
Pushed == response_queue \o responses_taken

\* C36: in a FIFO Swarm termination drops no work: when run_while has
\* ended, every task that was enqueued before terminate() started has been
\* run to its end, once, and the message of each task with a response
\* channel has been pushed, once; no task is left in the queue or running.
C36_TerminateDropsNoWork ==
    (~use_priority_queue /\ run_while_pc \in {"returned", "raised"}) =>
        /\ \A k \in 0..(tasks_put - 1) :
              /\ Cardinality({p \in LogPlaces : task_log[p[1]][p[2]].key = IntKey(k)}) = 1
              /\ \A p \in LogPlaces :
                    LET t == task_log[p[1]][p[2]] IN
                    t.key = IntKey(k) =>
                        Cardinality({i \in 1..Len(Pushed) : Pushed[i][1] = t.key})
                            = (IF t.response THEN 1 ELSE 0)
        /\ \A i \in 1..Len(Pushed) :
              \E p \in LogPlaces :
                  LET t == task_log[p[1]][p[2]] IN
                  /\ t.response
                  /\ Pushed[i][1] = t.key
                  /\ (Pushed[i][3] # "None") <=> t.raised
        /\ \A i \in 1..Len(queue) : queue[i].cb = "None"
        /\ Running = {}

\* C36 witness: a FIFO Swarm with all its workers has ended after the
\* driver raised; all the tasks of the driver were run, one of them raised,
\* and their messages wait in response_queue, none taken by the driver.
C36_Witness ==
    /\ ~use_priority_queue
    /\ run_while_pc = "raised"
    /\ max_workers = MaxSwarmWorkers
    /\ tasks_put = MaxLoadTasks
    /\ Cardinality(LogPlaces) = MaxLoadTasks
    /\ \A p \in LogPlaces : task_log[p[1]][p[2]].response
    /\ \E p \in LogPlaces : task_log[p[1]][p[2]].raised
    /\ responses_taken = <<>>
    /\ Len(response_queue) = MaxLoadTasks

\* C28: in a Swarm of N workers with a queue of Q > 0 places at most N
\* tasks run at the same time and at most Q wait in the queue: nothing is
\* added to a queue that is full, the producer waits; and a put on a queue
\* with no bound (Q = 0, the queue of find) never waits.
C28_WorkersAndQueueBounded ==
    /\ [](/\ Cardinality(Running) <= max_workers
          /\ queue_max_size > 0 => Len(queue) <= queue_max_size
          /\ (queue_max_size = 0 /\ driver_pc = "task" /\ tasks_put < MaxLoadTasks) =>
                 ENABLED (DriverPutUpTo(MaxLoadTasks, NoneKey, TRUE))
          /\ (queue_max_size = 0 /\ driver_pc = "terminate"
                  /\ terminate_ix < SentinelCount) => ENABLED TerminatePut)
    /\ [][Len(queue') > Len(queue) =>
             (queue_max_size = 0 \/ Len(queue) < queue_max_size)]_vars

\* C28 witness: one worker, one place: a task runs, another waits in the
\* queue, and the producer is held at its next put.
C28_Witness ==
    /\ max_workers = 1
    /\ queue_max_size = 1
    /\ worker_pc[1] = "run"
    /\ Len(queue) = 1
    /\ queue[1].cb = "task"
    /\ driver_pc = "terminate"
    /\ terminate_ix = 0
    /\ ~ENABLED TerminatePut

(***************************************************************************)
(*             posixpath, DBFS._resolve, DBFS.cd and DBFS.rm               *)
(***************************************************************************)

\* Bounds of the cwd model: the length of the path arguments and the depth
\* of the remote directory tree.
MaxInputLen == 3
MaxDepth == 2

PathChars == {"/", ".", "a"}
\* The names a remote directory can have.
DirNames == {<<"a">>, <<"a", "a">>}
\* The path arguments of cd, rm and mkdir.
PathInputs == UNION {[1..k -> PathChars] : k \in 0..MaxInputLen}

Root == <<"/">>
Dot == <<".">>
DotDot == <<".", ".">>

\* str.startswith
StartsWith(str, prefix) ==
    /\ Len(prefix) <= Len(str)
    /\ SubSeq(str, 1, Len(prefix)) = prefix

\* str.endswith("/")
EndsWithSlash(str) == Len(str) > 0 /\ str[Len(str)] = "/"

\* str.find("/"): the first index of "/" (1-based), 0 when there is none
FindSlash(str) ==
    IF \E k \in 1..Len(str) : str[k] = "/"
    THEN CHOOSE k \in 1..Len(str) : str[k] = "/" /\ \A j \in 1..(k - 1) : str[j] # "/"
    ELSE 0

\* str.rfind("/") + 1: the (1-based) index of the last "/", 0 when none
RFindSlash(str) ==
    IF \E k \in 1..Len(str) : str[k] = "/"
    THEN CHOOSE k \in 1..Len(str) : str[k] = "/" /\ \A j \in (k + 1)..Len(str) : str[j] # "/"
    ELSE 0

\* str.split("/")
RECURSIVE SplitSlash(_)
SplitSlash(str) ==
    LET k == FindSlash(str) IN
    IF k = 0 THEN <<str>>
    ELSE <<SubSeq(str, 1, k - 1)>> \o SplitSlash(SubSeq(str, k + 1, Len(str)))

\* "/".join(comps)
RECURSIVE JoinSlash(_)
JoinSlash(comps) ==
    IF comps = <<>> THEN <<>>
    ELSE IF Len(comps) = 1 THEN comps[1]
    ELSE comps[1] \o <<"/">> \o JoinSlash(Tail(comps))

\* str.rstrip("/")
RECURSIVE RStripSlash(_)
RStripSlash(str) ==
    IF EndsWithSlash(str) THEN RStripSlash(SubSeq(str, 1, Len(str) - 1)) ELSE str

\* posixpath.join(a, b)
PosixJoin(a, b) ==
    IF StartsWith(b, <<"/">>) THEN b
    ELSE IF a = <<>> \/ EndsWithSlash(a) THEN a \o b
    ELSE a \o <<"/">> \o b

\* posixpath.normpath: the loop over the components.
RECURSIVE NormComps(_, _, _)
NormComps(comps, new_comps, initial_slashes) ==
    IF comps = <<>> THEN new_comps
    ELSE LET comp == Head(comps) IN
         IF comp = <<>> \/ comp = Dot
         THEN NormComps(Tail(comps), new_comps, initial_slashes)
         ELSE IF \/ comp # DotDot
                 \/ (initial_slashes = 0 /\ new_comps = <<>>)
                 \/ (new_comps # <<>> /\ new_comps[Len(new_comps)] = DotDot)
         THEN NormComps(Tail(comps), Append(new_comps, comp), initial_slashes)
         ELSE IF new_comps # <<>>
         THEN NormComps(Tail(comps), SubSeq(new_comps, 1, Len(new_comps) - 1),
                        initial_slashes)
         ELSE NormComps(Tail(comps), new_comps, initial_slashes)

\* posixpath.normpath
PosixNormpath(path) ==
    IF path = <<>> THEN Dot
    ELSE LET initial_slashes ==
                 IF ~StartsWith(path, <<"/">>) THEN 0
                 ELSE IF StartsWith(path, <<"/", "/">>) /\ ~StartsWith(path, <<"/", "/", "/">>)
                      THEN 2
                      ELSE 1
             joined == JoinSlash(NormComps(SplitSlash(path), <<>>, initial_slashes))
             result == [k \in 1..initial_slashes |-> "/"] \o joined
         IN IF result = <<>> THEN Dot ELSE result

\* posixpath.split(p)[0]
PosixSplitHead(p) ==
    LET i == RFindSlash(p)
        head == SubSeq(p, 1, i)
    IN IF head # <<>> /\ head # [k \in 1..Len(head) |-> "/"]
       THEN RStripSlash(head)
       ELSE head

\* dbfs.py:69-70  DBFS._resolve(path)
Resolve(path) == PosixNormpath(PosixJoin(cwd, path))

\* The parts of a path between its slashes.
Components(path) == SelectSeq(SplitSlash(path), LAMBDA comp : comp # <<>>)

\* The remote paths of the model: /name/.../name, at most MaxDepth deep.
RemotePaths ==
    {Root} \cup
    {<<"/">> \o JoinSlash(names) :
        names \in UNION {[1..k -> DirNames] : k \in 1..MaxDepth}}

\* path is under the directory dir in the remote tree.
IsUnder(path, dir) ==
    /\ path # dir
    /\ dir = Root \/ StartsWith(path, dir \o <<"/">>)

\* The directory that holds path (the root holds itself).
ParentOf(path) ==
    LET comps == Components(path) IN
    <<"/">> \o JoinSlash(SubSeq(comps, 1, Len(comps) - 1))

NoOp == [op |-> "none", path |-> <<>>, ok |-> FALSE, cwd_before |-> Root]

CwdIdle ==
    /\ cwd = Root
    /\ remote_dirs = {}
    /\ last_op = NoOp

\* dbfs.py:54  self.cwd = "/"; the remote tree holds any directories.
CwdInit ==
    /\ cwd = Root
    /\ remote_dirs \in {ds \in SUBSET RemotePaths :
                           /\ Root \in ds
                           /\ \A d \in ds : ParentOf(d) \in ds}
    /\ last_op = NoOp

\* dbfs.py:80-81  _assert_dir raises before `self.cwd = path` is reached.
CwdAfterCd_Unchecked(path, ok) == path
CwdAfterCd(path, ok) == IF ok THEN path ELSE cwd

\* dbfs.py:78-81  DBFS.cd: the get-status request must succeed and report a
\* directory.
Cd(path_arg, status_ok) ==
    LET path == Resolve(path_arg)
        ok == status_ok /\ path \in remote_dirs
    IN /\ cwd' = CwdAfterCd(path, ok)
       /\ last_op' = [NoOp EXCEPT !.op = "cd", !.ok = ok]
       /\ UNCHANGED remote_dirs

\* dbfs.py:254-259: the repair of cwd after a successful delete.
CwdAfterRm(path) ==
    IF /\ cwd # Root
       /\ \/ cwd = path
          \/ (StartsWith(cwd, path) /\ cwd[Len(path) + 1] = "/")
    THEN PosixSplitHead(path)
    ELSE cwd

\* The directories left by a successful delete of path: the root itself is
\* never removed, only emptied.
DirsAfterDelete(path) ==
    {d \in remote_dirs : ~(IsUnder(d, path) \/ (d = path /\ d # Root))}

\* The backend accepts delete(path, recursive): path is a directory, empty
\* unless recursive.
DeleteAccepted(path, recursive) ==
    /\ path \in remote_dirs
    /\ recursive \/ ~(\E d \in remote_dirs : IsUnder(d, path))

\* dbfs.py:249-259  DBFS.rm: the delete request fails on its way or is
\* answered by the backend; after a failure _run_with_session raises and the
\* repair is not reached.
Rm(path_arg, recursive, request_ok) ==
    LET path == Resolve(path_arg)
        ok == request_ok /\ DeleteAccepted(path, recursive)
    IN /\ remote_dirs' = IF ok THEN DirsAfterDelete(path) ELSE remote_dirs
       /\ cwd' = IF ok THEN CwdAfterRm(path) ELSE cwd
       /\ last_op' = [op |-> "rm", path |-> path, ok |-> ok, cwd_before |-> cwd]

\* dbfs.py:222-227  DBFS.mkdir: mkdirs creates the missing ancestors too.
Mkdir(path_arg) ==
    LET path == Resolve(path_arg)
        ok == path \in RemotePaths
    IN /\ remote_dirs' =
            IF ok THEN remote_dirs \cup {d \in RemotePaths : d = path \/ IsUnder(path, d)}
            ELSE remote_dirs
       /\ last_op' = [NoOp EXCEPT !.op = "mkdir", !.ok = ok]
       /\ UNCHANGED cwd

\* The public operations, other than cd, rm and mkdir, that take remote
\* paths: each resolves them against cwd (dbfs.py:69-70) and none assigns
\* self.cwd (dbfs.py:201-202 get_status, 236-242 ls, 279-282 mv, 365-369 put,
\* 476-483 get, 565-570 find, 683-692 rget, 753-755 rput).  What they do to
\* the remote files is the subject of the other specifications; the remote
\* directories are left as they are here.
OtherOperations == {"get_status", "ls", "mv", "put", "get", "find", "rget", "rput"}

Operation(op, ok) ==
    /\ last_op' = [NoOp EXCEPT !.op = op, !.ok = ok]
    /\ UNCHANGED <<cwd, remote_dirs>>

CwdNext ==
    \/ \E p \in PathInputs, ok \in BOOLEAN : Cd(p, ok) /\ UNCHANGED notCwd
    \/ \E p \in PathInputs, b, ok \in BOOLEAN : Rm(p, b, ok) /\ UNCHANGED notCwd
    \/ \E p \in PathInputs : Mkdir(p) /\ UNCHANGED notCwd
    \/ \E op \in OtherOperations, ok \in BOOLEAN : Operation(op, ok) /\ UNCHANGED notCwd

\* C10: after a successful rm(path), cwd is the parent of the removed path
\* if cwd was the removed path or under it, and is unchanged otherwise.
C10_CwdRepaired ==
    (last_op.op = "rm" /\ last_op.ok) =>
        IF last_op.cwd_before = last_op.path \/ IsUnder(last_op.cwd_before, last_op.path)
        THEN cwd = ParentOf(last_op.path)
        ELSE cwd = last_op.cwd_before

\* C34: a step changes cwd only if it is a cd that succeeded or an rm that
\* succeeded (its repair): a cd or an rm that failed and every other public
\* operation leave cwd as it was; and cwd is always an absolute path that
\* posixpath.normpath leaves as it is.
C34_CwdFrame ==
    /\ [](cwd # <<>> /\ cwd[1] = "/" /\ PosixNormpath(cwd) = cwd)
    /\ [][cwd' # cwd => (last_op'.op \in {"cd", "rm"} /\ last_op'.ok)]_vars
    /\ [][(last_op'.op = "rm" /\ cwd' # cwd) =>
            (cwd = last_op'.path \/ IsUnder(cwd, last_op'.path))]_vars

\* The rm of the working directory, two directories down, was accepted and
\* cwd is now the directory above it.
C34_Witness ==
    /\ last_op.op = "rm" /\ last_op.ok
    /\ Len(Components(last_op.cwd_before)) = MaxDepth
    /\ last_op.path = last_op.cwd_before
    /\ cwd = ParentOf(last_op.cwd_before)
    /\ cwd # Root

(***************************************************************************)
(*                 DBFS._async_find: the ordered remote walk               *)
(***************************************************************************)

\* Bounds of the walks explored.
MaxFindWorkers == 2
MaxFileSize == 1

FindWorkers == 1..MaxFindWorkers

\* The path find is called on, already resolved.
FindPath == <<"/", "d">>

\* fileinfo.py:10-14  FileInfo (the modification time plays no part here)
FileInfo(abspath, is_dir, size) ==
    [abspath |-> abspath, is_dir |-> is_dir, size |-> size]

\* The paths a remote tree may hold below FindPath.  "/d/a-" sorts between
\* "/d/a" and "/d/a/b" as a str.
DirOrFilePaths == {<<"/", "d">>,
                   <<"/", "d", "/", "a">>,
                   <<"/", "d", "/", "a", "/", "b">>,
                   <<"/", "d", "/", "c">>}
FileOnlyPaths == {<<"/", "d", "/", "a", "-">>,
                  <<"/", "d", "/", "c", "/", "a">>}

TreeCandidates ==
    {FileInfo(p, TRUE, 0) : p \in DirOrFilePaths}
    \cup {FileInfo(p, FALSE, n) : p \in DirOrFilePaths \cup FileOnlyPaths,
                                  n \in 0..MaxFileSize}

\* A remote tree: FindPath exists, a path names one entry and every other
\* entry lies in a directory of the tree.
TreeWellFormed(t) ==
    /\ \E fi \in t : fi.abspath = FindPath
    /\ \A x, y \in t : x.abspath = y.abspath => x = y
    /\ \A x \in t : x.abspath # FindPath =>
           \E d \in t : d.is_dir /\ d.abspath = PosixSplitHead(x.abspath)

Trees == {t \in SUBSET TreeCandidates : TreeWellFormed(t)}

\* api/2.0/dbfs/get-status.  dbfs.py:188 and 234 build the answer with
\* FileInfo.from_json, which fileinfo.py:115-120 defines on FileInfoDBFS: the
\* answer of a request that succeeds is taken to be that FileInfoDBFS, and
\* the AttributeError of the call as written is one of the ways a status or
\* a listing fails.
GetStatus(path) == CHOOSE fi \in tree : fi.abspath = path

\* api/2.0/dbfs/list: the entries of a directory
ListFiles(path) ==
    {fi \in tree : fi.abspath # path /\ PosixSplitHead(fi.abspath) = path}

\* fileinfo.py:31-44  FileInfo.relpath(base)
Relpath(fi, base_arg) ==
    LET base == PosixNormpath(base_arg)
        path == fi.abspath
    IN IF path = base THEN Dot
       ELSE IF StartsWith(path, base)
            THEN IF base = Root THEN Tail(path)
                 ELSE IF path[Len(base) + 1] = "/"
                      THEN SubSeq(path, Len(base) + 2, Len(path))
                      ELSE path
            ELSE path

\* fileinfo.py:54-55  FileInfo.type
FileType(fi) == IF fi.is_dir THEN "dir" ELSE "file"

\* A predicate bundle: `type` is "None", "file" or "dir"; `max_size` and
\* `min_size` are <<>> for None or <<limit>>.
PredicateBundles ==
    [type : {"None", "file"}, max_size : {<<>>, <<0>>}, min_size : {<<>>}]
    \cup [type : {"None"}, max_size : {<<>>}, min_size : {<<1>>}]

\* fileinfo.py:57-58
CheckPredicateType(fi, type) == type = FileType(fi)

\* fileinfo.py:66-69
CheckPredicateMaxSize(fi, limit) == fi.is_dir \/ fi.size <= limit

\* fileinfo.py:71-74
CheckPredicateMinSize(fi, limit) == fi.is_dir \/ fi.size >= limit

\* fileinfo.py:95-109  FileInfo.check_predicates
CheckPredicates(fi, preds) ==
    /\ preds.type # "None" => CheckPredicateType(fi, preds.type)
    /\ preds.max_size # <<>> => CheckPredicateMaxSize(fi, preds.max_size[1])
    /\ preds.min_size # <<>> => CheckPredicateMinSize(fi, preds.min_size[1])

\* The external filters explored: none, or one that returns the relpaths of
\* its input that are in `selected`.
NoFilter == [set |-> FALSE, selected |-> {}]
Filters ==
    {NoFilter,
     [set |-> TRUE, selected |-> {<<"a">>, <<"a", "/", "b">>, <<"c", "/", "a">>}],
     [set |-> TRUE, selected |-> {Dot, <<"a", "-">>, <<"c">>}]}

\* dbfs.py:22-27  FindEntry
FindEntry(fi, good, failed, done) ==
    [fi |-> fi, good |-> good, ex |-> failed, done |-> done]

\* dbfs.py:500-509  an entry the external filter does not return is not good
GoodAfterFilterCb_Ignored(e, relpath) == e.good
GoodAfterFilterCb(e, relpath) ==
    IF filter_cb.set /\ relpath \notin filter_cb.selected THEN FALSE ELSE e.good

\* dbfs.py:503-507  `del entries_by_relpath[p]` for a path p the filter
\* returned and the batch does not hold raises KeyError, which is caught and
\* logged: filter(entries) does not raise on such a path.
FilterRaises_KeyError(batch) ==
    filter_cb.set /\ \E p \in filter_cb.selected :
                        \A fi \in batch : Relpath(fi, FindPath) # p
FilterRaises(batch) == FALSE

\* dbfs.py:495-509  filter(entries), for one entry of the batch
FilterEntry(e) ==
    LET relpath == Relpath(e.fi, FindPath)
        checked == IF ~CheckPredicates(e.fi, predicates)
                   THEN [e EXCEPT !.good = FALSE] ELSE e
    IN [checked EXCEPT !.good = GoodAfterFilterCb(checked, relpath)]

\* dbfs.py:543  FindEntry(fi, done=not fi.is_dir())
NewEntry(fi) == FindEntry(fi, TRUE, FALSE, ~fi.is_dir)

\* list.sort(key=lambda x: x.fi.abspath()): insertion into a sorted list
RECURSIVE InsertByAbspath(_, _)
InsertByAbspath(e, sorted) ==
    IF sorted = <<>> THEN <<e>>
    ELSE IF StrLt(e.fi.abspath, Head(sorted).fi.abspath)
         THEN <<e>> \o sorted
         ELSE <<Head(sorted)>> \o InsertByAbspath(e, Tail(sorted))

SortByAbspath_Unsorted(list) == list
RECURSIVE SortByAbspath(_)
SortByAbspath(list) ==
    IF list = <<>> THEN <<>>
    ELSE InsertByAbspath(list[Len(list)], SortByAbspath(SubSeq(list, 1, Len(list) - 1)))

\* A set as a list, in some order (the order of a listing response).
RECURSIVE SetToSeq(_)
SetToSeq(set) ==
    IF set = {} THEN <<>>
    ELSE LET x == CHOOSE x \in set : TRUE IN <<x>> \o SetToSeq(set \ {x})

\* heapq on keys that are all different: the smallest comes out.
MinStr(strs) == CHOOSE x \in strs : \A y \in strs \ {x} : StrLt(x, y)

\* dbfs.py:557-558  the length of the prefix of `pending` that is done
RECURSIVE DonePrefix(_)
DonePrefix(list) ==
    IF list # <<>> /\ Head(list).done THEN 1 + DonePrefix(Tail(list)) ELSE 0

\* The walker's Swarm queue is a PriorityQueue of wrappers whose keys are all
\* different: get() returns the one AlwaysComparable.__lt__ puts first.
MinKey(keys) == CHOOSE x \in keys : \A y \in keys \ {x} : AlwaysComparableLt(x, y)

IdleWorker == [pc |-> "idle", path |-> <<>>]

FindIdle ==
    /\ tree = {}
    /\ predicates = [type |-> "None", max_size |-> <<>>, min_size |-> <<>>]
    /\ filter_cb = NoFilter
    /\ find_pc = "idle"
    /\ pending = <<>>
    /\ entries_found = 0
    /\ find_queue = {}
    /\ find_worker = [w \in FindWorkers |-> IdleWorker]
    /\ find_responses = {}
    /\ emitted = <<>>
    /\ listings_failed = {}

FindInit ==
    /\ tree \in Trees
    /\ predicates \in PredicateBundles
    /\ filter_cb \in Filters
    /\ find_pc = "start"
    /\ pending = <<>>
    /\ entries_found = 0
    /\ find_queue = {}
    /\ find_worker = [w \in FindWorkers |-> IdleWorker]
    /\ find_responses = {}
    /\ emitted = <<>>
    /\ listings_failed = {}

\* dbfs.py:511-528  _async_find up to the loop of control(): the status of
\* the root, its entry, and either the single report of a root that is no
\* directory or the first listing task.
FindStart(status_ok) ==
    /\ find_pc = "start"
    /\ IF ~status_ok
       THEN /\ find_pc' = "raised"
            /\ UNCHANGED <<pending, entries_found, find_queue, emitted>>
       ELSE LET root_fi == GetStatus(FindPath)
                root_entry == FilterEntry(FindEntry(root_fi, TRUE, FALSE, FALSE))
            IN IF FilterRaises({root_fi})
               THEN /\ find_pc' = "raised"
                    /\ UNCHANGED <<pending, entries_found, find_queue, emitted>>
               ELSE IF ~root_fi.is_dir
               THEN /\ emitted' = Append(emitted, root_entry)
                    /\ find_pc' = "returned"
                    /\ UNCHANGED <<pending, entries_found, find_queue>>
               ELSE /\ find_queue' = {StrKey(FindPath)}
                    /\ pending' = <<root_entry>>
                    /\ entries_found' = 1
                    /\ find_pc' = "control"
                    /\ UNCHANGED emitted
    /\ UNCHANGED <<tree, predicates, filter_cb, find_worker, find_responses,
                   listings_failed>>

\* swarm.py:78-84  a worker takes the first wrapper of the queue; a sentinel
\* ends it.
FindWorkerGet(w) ==
    /\ find_worker[w].pc = "idle"
    /\ find_queue # {}
    /\ LET key == MinKey(find_queue)
       IN /\ find_queue' = find_queue \ {key}
          /\ find_worker' = [find_worker EXCEPT ![w] =
                 IF key[1] = "int" THEN [pc |-> "exited", path |-> <<>>]
                 ELSE [pc |-> "listing", path |-> key[3]]]
    /\ UNCHANGED <<tree, predicates, filter_cb, find_pc, pending, entries_found,
                   find_responses, emitted, listings_failed>>

\* swarm.py:85-97 with dbfs.py:229-234  the listing ends with the entries of
\* the directory or with an exception, and the response is queued.
FindWorkerEnd(w, list_ok) ==
    /\ find_worker[w].pc = "listing"
    /\ find_responses' = find_responses \cup
           {[key |-> find_worker[w].path, ok |-> list_ok]}
    /\ find_worker' = [find_worker EXCEPT ![w] = IdleWorker]
    /\ listings_failed' = IF list_ok THEN listings_failed
                          ELSE listings_failed \cup {find_worker[w].path}
    /\ UNCHANGED <<tree, predicates, filter_cb, find_pc, pending, entries_found,
                   find_queue, emitted>>

\* swarm.py:69-72  Swarm.terminate on a queue that is never full
Sentinels == {IntKey(ix) : ix \in 0..(MaxFindWorkers - 1)}

\* dbfs.py:533-539  the pending entry of the response is marked
MarkDone_NoError(list, key, failed) ==
    LET k == CHOOSE k \in 1..Len(list) : list[k].fi.abspath = key
    IN [list EXCEPT ![k] = [@ EXCEPT !.done = TRUE]]
MarkDone(list, key, failed) ==
    LET k == CHOOSE k \in 1..Len(list) :
                 /\ list[k].fi.abspath = key
                 /\ \A j \in 1..(k - 1) : list[j].fi.abspath # key
    IN [list EXCEPT ![k] = [@ EXCEPT !.ex = failed, !.done = TRUE]]

\* dbfs.py:529-561  one round of the loop of control(): a response is taken,
\* its entry marked, the entries of the listing filtered, added and sorted,
\* their directories queued and the done prefix of `pending` reported.  What
\* a worker does while the round awaits its callbacks is what it can do
\* before or after the round, since the round reads the response queue once,
\* at its start, and writes the task queue in one go.  When `pending` is
\* empty control() returns and run_while's wrapper queues the sentinels
\* (swarm.py:47-52).
ControlRound ==
    /\ find_pc = "control"
    /\ find_responses # {}
    /\ LET key == MinStr({res.key : res \in find_responses})
           res == CHOOSE res \in find_responses : res.key = key
           fis == IF res.ok THEN ListFiles(key) ELSE {}
       IN /\ find_responses' = find_responses \ {res}
          /\ IF \/ ~\E k \in 1..Len(pending) : pending[k].fi.abspath = key
                \/ fis # {} /\ FilterRaises(fis)
             THEN /\ find_pc' = "raising"
                  /\ find_queue' = find_queue \cup Sentinels
                  /\ UNCHANGED <<pending, entries_found, emitted>>
             ELSE LET marked == MarkDone(pending, key, ~res.ok)
                      new == [k \in 1..Cardinality(fis) |->
                                 FilterEntry(NewEntry(SetToSeq(fis)[k]))]
                      sorted == IF fis # {} THEN SortByAbspath(marked \o new)
                                ELSE marked
                      n == DonePrefix(sorted)
                      left == SubSeq(sorted, n + 1, Len(sorted))
                  IN /\ entries_found' = entries_found + Cardinality(fis)
                     /\ emitted' = emitted \o SubSeq(sorted, 1, n)
                     /\ pending' = left
                     /\ find_queue' =
                            find_queue
                            \cup {StrKey(fi.abspath) : fi \in {x \in fis : x.is_dir}}
                            \cup (IF left = <<>> THEN Sentinels ELSE {})
                     /\ find_pc' = IF left = <<>> THEN "terminating" ELSE "control"
    /\ UNCHANGED <<tree, predicates, filter_cb, find_worker, listings_failed>>

\* swarm.py:54-61  run_while ends when its workers have: it returns, or
\* raises what control() raised.
FindEnd ==
    /\ find_pc \in {"terminating", "raising"}
    /\ \A w \in FindWorkers : find_worker[w].pc = "exited"
    /\ find_pc' = IF find_pc = "raising" THEN "raised" ELSE "returned"
    /\ UNCHANGED <<tree, predicates, filter_cb, pending, entries_found,
                   find_queue, find_worker, find_responses, emitted,
                   listings_failed>>

FindNext ==
    \/ \E ok \in BOOLEAN : FindStart(ok) /\ UNCHANGED notFind
    \/ \E w \in FindWorkers : FindWorkerGet(w) /\ UNCHANGED notFind
    \/ \E w \in FindWorkers, ok \in BOOLEAN : FindWorkerEnd(w, ok) /\ UNCHANGED notFind
    \/ ControlRound /\ UNCHANGED notFind
    \/ FindEnd /\ UNCHANGED notFind

IsProperAncestor(dir, path) == StartsWith(path, dir \o <<"/">>)

FindCompletedOnDirectory == find_pc = "returned" /\ GetStatus(FindPath).is_dir

EmittedIndexes(fi) == {i \in 1..Len(emitted) : emitted[i].fi = fi}

\* The entry satisfies the predicate bundle and the external filter.
Satisfies(fi) ==
    /\ CheckPredicates(fi, predicates)
    /\ filter_cb.set => Relpath(fi, FindPath) \in filter_cb.selected

\* The directory was reported with the exception of its listing.
ListingFailed(dir) ==
    \E i \in 1..Len(emitted) : emitted[i].fi = dir /\ emitted[i].ex

\* The entries of the tree no ancestor of which failed to list.
Listed ==
    {fi \in tree : \A d \in tree :
        IsProperAncestor(d.abspath, fi.abspath) => ~ListingFailed(d)}

\* C2: the entries passed to the consumer callback are strictly ascending in
\* path order (as str), and each of them has done = true when it is passed.
C2_AscendingAndDone ==
    /\ \A i, j \in 1..Len(emitted) :
           i < j => StrLt(emitted[i].fi.abspath, emitted[j].fi.abspath)
    /\ \A i \in 1..Len(emitted) : emitted[i].done

\* C3 as stated: when find on a directory completes, every entry of the tree
\* has been passed to the callback exactly once and the entries passed as
\* good are those that satisfy the predicates and the external filter.
C3_EveryEntryOnce ==
    FindCompletedOnDirectory =>
        /\ \A fi \in tree : Cardinality(EmittedIndexes(fi)) = 1
        /\ {emitted[i].fi : i \in {k \in 1..Len(emitted) : emitted[k].good}}
               = {fi \in tree : Satisfies(fi)}

\* C3 amended: when find on a directory completes, the entries passed to the
\* callback are, exactly once each, the entries of the tree below no
\* directory whose listing failed (good or not), and those passed as good are
\* the ones among them that satisfy the predicates and the external filter.
C3_EveryListedEntryOnce ==
    FindCompletedOnDirectory =>
        /\ \A fi \in Listed : Cardinality(EmittedIndexes(fi)) = 1
        /\ \A i \in 1..Len(emitted) : emitted[i].fi \in Listed
        /\ {emitted[i].fi : i \in {k \in 1..Len(emitted) : emitted[k].good}}
               = {fi \in Listed : Satisfies(fi)}

\* A completed find with an external filter in which a directory that is not
\* good has a descendant that is, and a failed listing hides a subtree.
C3_Witness ==
    /\ FindCompletedOnDirectory
    /\ filter_cb.set
    /\ \E i, j \in 1..Len(emitted) :
           /\ emitted[i].fi.is_dir /\ ~emitted[i].good /\ ~emitted[i].ex
           /\ IsProperAncestor(emitted[i].fi.abspath, emitted[j].fi.abspath)
           /\ emitted[j].good
    /\ Listed # tree

\* The entries that went through filter(entries) and are not yet changed by
\* anything else: those waiting in `pending` and those passed to the callback.
Filtered ==
    {pending[i] : i \in 1..Len(pending)} \cup {emitted[i] : i \in 1..Len(emitted)}

\* C31: with an external filter, an entry is good after the filtering of its
\* batch iff it satisfies the predicate bundle and the filter returned its
\* relpath (so an entry that was not returned is not good), and the paths the
\* filter returns that are not in the batch do not make find raise: the
\* filtering of the root lets find go on and control() never raises.
C31_FilterDecidesGood ==
    filter_cb.set =>
        /\ \A e \in Filtered :
               e.good <=> /\ CheckPredicates(e.fi, predicates)
                          /\ Relpath(e.fi, FindPath) \in filter_cb.selected
        /\ \A e \in Filtered :
               Relpath(e.fi, FindPath) \notin filter_cb.selected => ~e.good
        /\ find_pc # "raising"
        /\ find_pc = "start" =>
               ENABLED (FindStart(TRUE) /\ find_pc' # "raised")

\* A find that returned although the filter returned, for the batch of the
\* root and for a batch of listed entries, paths that the batch did not
\* hold; it passed a good entry, an entry the filter did not return and the
\* predicates accept, and an entry the filter returned and the predicates
\* reject.
C31_Witness ==
    /\ FindCompletedOnDirectory
    /\ filter_cb.set
    /\ Dot \notin filter_cb.selected
    /\ \E p \in filter_cb.selected : \A fi \in tree : Relpath(fi, FindPath) # p
    /\ \E i, j, k \in 1..Len(emitted) :
           /\ emitted[i].good
           /\ ~emitted[j].good /\ CheckPredicates(emitted[j].fi, predicates)
           /\ ~emitted[k].good /\ ~CheckPredicates(emitted[k].fi, predicates)
           /\ Relpath(emitted[k].fi, FindPath) \in filter_cb.selected

\* The entries of the tree below no directory whose listing raised.
Discovered ==
    {fi \in tree : \A d \in listings_failed :
        ~IsProperAncestor(d, fi.abspath)}

\* C15: a listing that raises does not abort find: control() does not raise,
\* the directory is passed to the callback once, done and with the exception
\* attached (and no other entry carries one), and when find returns every
\* entry below no failed directory has been passed to the callback.
C15_FailedListingDoesNotAbort ==
    /\ find_pc # "raising"
    /\ find_pc = "raised" => entries_found = 0
    /\ \A i \in 1..Len(emitted) :
           emitted[i].ex => (emitted[i].done /\ emitted[i].fi.abspath \in listings_failed)
    /\ FindCompletedOnDirectory =>
           /\ \A d \in listings_failed :
                  \E i \in 1..Len(emitted) :
                      /\ emitted[i].fi.abspath = d /\ emitted[i].ex /\ emitted[i].done
                      /\ \A j \in 1..Len(emitted) : emitted[j].fi.abspath = d => j = i
           /\ \A fi \in Discovered : EmittedIndexes(fi) # {}

\* A find that returned after the listing of one directory raised, in which
\* the entries of another directory were passed to the callback after the
\* entry of the failed one.
C15_Witness ==
    /\ FindCompletedOnDirectory
    /\ \E i, j, k \in 1..Len(emitted) :
           /\ emitted[i].ex /\ emitted[i].fi.abspath # FindPath
           /\ i < j /\ j < k
           /\ emitted[j].fi.is_dir /\ ~emitted[j].ex
           /\ PosixSplitHead(emitted[k].fi.abspath) = emitted[j].fi.abspath

(***************************************************************************)
(*              FileInfo.check_predicates (src/fastdbfs/fileinfo.py)       *)
(***************************************************************************)

\* The number of predicates of a call.
MaxPredicates == 2

\* posixpath.basename
PosixBasename(p) == SubSeq(p, RFindSlash(p) + 1, Len(p))

\* The FileInfo objects explored: fileinfo.py:10-14 with the modification
\* time, in milliseconds.
CheckFileInfos ==
    [abspath : {<<"/", "d", "/", "a">>, <<"/", "d", "/", "b">>},
     is_dir : BOOLEAN, size : {0, 2}, mtime : {999, 1000}]

\* The names fileinfo.py:58-94 defines a method _check_predicate__<name> for.
PredicateNames ==
    {"type", "newer_than", "older_than", "max_size", "min_size", "name",
     "iname", "re", "ire", "iwholere", "wholere"}

\* The value explored for each predicate when it is not None: the type
\* "file", the limit 1 (a byte, or a second) and, for a compiled pattern, the
\* set of strings it matches.
PredicateValue(name) ==
    CASE name = "type" -> "file"
      [] name \in {"newer_than", "older_than", "max_size", "min_size"} -> 1
      [] OTHER -> {<<"a">>}

\* An item of the dict: `exclude` is key.startswith("exclude_"), `name` is
\* the key without that prefix (fileinfo.py:100-101, 106) and `is_none`
\* tells a None from PredicateValue(name).
Predicate(exclude, name, is_none) ==
    [exclude |-> exclude, name |-> name, is_none |-> is_none]

AllPredicates ==
    {Predicate(exclude, name, is_none) :
         exclude \in BOOLEAN, name \in PredicateNames, is_none \in BOOLEAN}

\* **predicates: a dict in the order of the call, its keys all different.
Kwargs ==
    {kw \in UNION {[1..n -> AllPredicates] : n \in 0..MaxPredicates} :
        \A i, j \in DOMAIN kw :
            (kw[i].exclude = kw[j].exclude /\ kw[i].name = kw[j].name) => i = j}

Truth(b) == IF b THEN "True" ELSE "False"

\* fileinfo.py:58-94  method(value, relpath) of a predicate whose value is
\* not None.  `name` passes relpath as the position argument of fullmatch
\* (line 79) and `iname` and `re` take one argument less than they are called
\* with (lines 81, 84 against 102, 107): the three raise TypeError.  The two
\* whole-path searches pass the bound method self.basename to search when
\* relpath is None (lines 91, 94), which raises TypeError as well.
CheckPredicateMethod(fi, name, value, relpath) ==
    CASE name = "type" -> Truth(CheckPredicateType(fi, value))
      [] name = "newer_than" -> Truth(fi.mtime >= value * 1000)
      [] name = "older_than" -> Truth(fi.mtime <= value * 1000)
      [] name = "max_size" -> Truth(CheckPredicateMaxSize(fi, value))
      [] name = "min_size" -> Truth(CheckPredicateMinSize(fi, value))
      [] name \in {"name", "iname", "re"} -> "TypeError"
      [] name = "ire" -> Truth(PosixBasename(fi.abspath) \in value)
      [] name \in {"iwholere", "wholere"} ->
             IF relpath = <<>> THEN "TypeError" ELSE Truth(relpath[1] \in value)

\* fileinfo.py:96-110  FileInfo.check_predicates(relpath, **predicates)
RECURSIVE CheckPredicatesCall(_, _, _)
CheckPredicatesCall(fi, relpath, kwargs) ==
    IF kwargs = <<>> THEN "True"
    ELSE LET p == Head(kwargs)
             matched == CheckPredicateMethod(fi, p.name, PredicateValue(p.name),
                                             relpath)
         IN IF p.is_none THEN CheckPredicatesCall(fi, relpath, Tail(kwargs))
            ELSE IF matched = "TypeError" THEN "TypeError"
            ELSE IF matched = Truth(p.exclude) THEN "False"
            ELSE CheckPredicatesCall(fi, relpath, Tail(kwargs))

CheckIdle ==
    /\ check_fi = FileInfo(<<>>, FALSE, 0)
    /\ check_relpath = <<>>
    /\ check_kwargs = <<>>
    /\ check_result = "idle"

\* The calls explored: relpath is None or, as in dbfs.py:496-498, the path
\* of the entry relative to the root of the walk.
CheckInit ==
    /\ check_fi \in CheckFileInfos
    /\ check_relpath \in {<<>>, <<Relpath(check_fi, FindPath)>>}
    /\ check_kwargs \in Kwargs
    /\ check_result = "pending"

Check ==
    /\ check_result = "pending"
    /\ check_result' = CheckPredicatesCall(check_fi, check_relpath, check_kwargs)
    /\ UNCHANGED <<check_fi, check_relpath, check_kwargs>>

CheckNext == Check /\ UNCHANGED notCheck

\* What the pattern or the limit of a predicate is compared with, and how:
\* the test each method applies to its subject.
Matches(fi, relpath, p) ==
    LET value == PredicateValue(p.name)
    IN CASE p.name = "type" -> value = FileType(fi)
         [] p.name = "newer_than" -> fi.mtime >= value * 1000
         [] p.name = "older_than" -> fi.mtime <= value * 1000
         [] p.name = "max_size" -> fi.is_dir \/ fi.size <= value
         [] p.name = "min_size" -> fi.is_dir \/ fi.size >= value
         [] p.name \in {"name", "iname", "re", "ire"} ->
                PosixBasename(fi.abspath) \in value
         [] p.name \in {"iwholere", "wholere"} ->
                (IF relpath = <<>> THEN PosixBasename(fi.abspath) ELSE relpath[1])
                    \in value

Active(kwargs) == {kwargs[i] : i \in {k \in DOMAIN kwargs : ~kwargs[k].is_none}}

\* C32: check_predicates keeps the entry (returns True) iff every active
\* predicate without the exclude_ prefix matches it and no active exclude_
\* predicate does; the predicates whose value is None play no part; min_size
\* and max_size match every directory.
C32_KeptIffAllMatchNoneExcluded ==
    check_result \notin {"idle", "pending"} =>
        /\ check_result = "True" <=>
               \A p \in Active(check_kwargs) :
                   Matches(check_fi, check_relpath, p) <=> ~p.exclude
        /\ check_result =
               CheckPredicatesCall(check_fi, check_relpath,
                                   SelectSeq(check_kwargs, LAMBDA p : ~p.is_none))
        /\ check_fi.is_dir =>
               \A p \in Active(check_kwargs) :
                   (p.name \in {"min_size", "max_size"} /\ ~p.exclude) =>
                       CheckPredicateMethod(check_fi, p.name, PredicateValue(p.name),
                                            check_relpath) = "True"

(***************************************************************************)
(*                  DBFS.get: the chunked download of a file               *)
(***************************************************************************)

\* Bounds of the downloads explored.
MaxFileLen == 3
MaxChunkSize == 2
MaxGetWorkers == 2

\* The bytes of a remote file; 0 is what a hole of a local file reads as.
Bytes == {1, 2}
HoleByte == 0

FileContents == UNION {[1..n -> Bytes] : n \in 0..MaxFileLen}

GetWorkers == 1..get_workers

NoFile == [exists |-> FALSE, content |-> <<>>]
File(content) == [exists |-> TRUE, content |-> content]

\* A chunk task (dbfs.py:447-450) or a sentinel of Swarm.terminate.
ChunkTask(chunk_offset, length) == [cb |-> "get_chunk", offset |-> chunk_offset, length |-> length]
SentinelTask == [cb |-> "None", offset |-> 0, length |-> 0]

IdleGetWorker ==
    [pc |-> "idle", start |-> 0, length |-> 0, offset |-> 0, remaining |-> 0]

\* dbfs.py:388-389  out.seek(offset); out.write(chunk)
WriteAt(content, pos, chunk) ==
    [k \in 1..Max(Len(content), pos + Len(chunk)) |->
        IF k > pos /\ k <= pos + Len(chunk) THEN chunk[k - pos]
        ELSE IF k <= Len(content) THEN content[k]
        ELSE HoleByte]

\* api/2.0/dbfs/read: the bytes of the file from `pos` on, `count` of them
ReadData(pos, count) == SubSeq(get_src, pos + 1, pos + count)

\* api/2.0/dbfs/read: how many bytes a read may return; never more than
\* asked for nor than the file has left, and at least one while there are.
BytesReadable(pos, length) == 1..Min(length, Len(get_src) - pos)

GetIdle ==
    /\ get_src = <<>>
    /\ get_chunk_size = 1
    /\ get_workers = 1
    /\ get_pc = "idle"
    /\ get_offset = 0
    /\ active_tasks = 0
    /\ bytes_copied = 0
    /\ get_queue = <<>>
    /\ get_worker = [w \in 1..MaxGetWorkers |-> IdleGetWorker]
    /\ get_responses = <<>>
    /\ tmp_file = NoFile
    /\ local_target = NoFile
    /\ chunks_completed = <<>>
    /\ chunks_queued = <<>>
    /\ request_failed = FALSE

GetInit ==
    /\ get_src \in FileContents
    /\ get_chunk_size \in 1..MaxChunkSize
    /\ get_workers \in 1..MaxGetWorkers
    /\ get_pc = "start"
    /\ get_offset = 0
    /\ active_tasks = 0
    /\ bytes_copied = 0
    /\ get_queue = <<>>
    /\ get_worker = [w \in 1..MaxGetWorkers |-> IdleGetWorker]
    /\ get_responses = <<>>
    /\ tmp_file = NoFile
    /\ local_target = NoFile
    /\ chunks_completed = <<>>
    /\ chunks_queued = <<>>
    /\ request_failed = FALSE

\* dbfs.py:402-411, 421-428  the target does not exist, the temporary file
\* is created and the status of the source fetched.
GetStart(status_ok) ==
    /\ get_pc = "start"
    /\ IF status_ok
       THEN /\ tmp_file' = File(<<>>)
            /\ get_pc' = "drain"
            /\ UNCHANGED <<get_queue>>
       ELSE /\ tmp_file' = NoFile
            /\ get_pc' = "raising"
            /\ get_queue' = [k \in 1..get_workers |-> SentinelTask]
    /\ request_failed' = ~status_ok
    /\ UNCHANGED <<get_src, get_chunk_size, get_workers, get_offset, active_tasks,
                   bytes_copied, get_worker, get_responses, local_target,
                   chunks_completed,
                   chunks_queued>>

\* dbfs.py:442  next_offset = min(offset + self.chunk_size, size)
NextOffset_Unclamped(offset, chunk_size, size) == offset + chunk_size
NextOffset(offset, chunk_size, size) == Min(offset + chunk_size, size)

\* Swarm.unwrap_response over the responses at hand: the first that carries
\* an exception, 0 when there is none.
FirstFailed(responses) ==
    IF \E k \in 1..Len(responses) : ~responses[k].ok
    THEN CHOOSE k \in 1..Len(responses) :
             ~responses[k].ok /\ \A j \in 1..(k - 1) : responses[j].ok
    ELSE 0

RECURSIVE SumValues(_)
SumValues(responses) ==
    IF responses = <<>> THEN 0
    ELSE Head(responses).value + SumValues(Tail(responses))

\* dbfs.py:432-445  the responses at hand are taken without waiting, then
\* the next window is computed.
GetDrain ==
    /\ get_pc = "drain"
    /\ LET k == FirstFailed(get_responses)
       IN IF k > 0
          THEN /\ get_responses' = SubSeq(get_responses, k + 1, Len(get_responses))
               /\ active_tasks' = active_tasks - k
               /\ bytes_copied' = bytes_copied + SumValues(SubSeq(get_responses, 1, k - 1))
               /\ get_pc' = "finally"
          ELSE /\ get_responses' = <<>>
               /\ active_tasks' = active_tasks - Len(get_responses)
               /\ bytes_copied' = bytes_copied + SumValues(get_responses)
               /\ get_pc' = IF NextOffset(get_offset, get_chunk_size, Len(get_src))
                                   - get_offset <= 0
                            THEN "wait" ELSE "put"
    /\ UNCHANGED <<get_src, get_chunk_size, get_workers, get_offset, get_queue,
                   get_worker, tmp_file, local_target, chunks_completed, request_failed,
                   chunks_queued>>

\* dbfs.py:442-452  the chunk task is queued once the queue of the low Swarm
\* (of `workers` places) has room.
GetPut ==
    /\ get_pc = "put"
    /\ Len(get_queue) < get_workers
    /\ LET next_offset == NextOffset(get_offset, get_chunk_size, Len(get_src))
       IN /\ get_queue' = Append(get_queue, ChunkTask(get_offset, next_offset - get_offset))
          /\ chunks_queued' = Append(chunks_queued,
                 ChunkTask(get_offset, next_offset - get_offset))
          /\ get_offset' = next_offset
    /\ active_tasks' = active_tasks + 1
    /\ get_pc' = "drain"
    /\ UNCHANGED <<get_src, get_chunk_size, get_workers, bytes_copied, get_worker,
                   get_responses, tmp_file, local_target, chunks_completed, request_failed>>

\* dbfs.py:454-459  a response is awaited and unwrapped.
GetWait ==
    /\ get_pc = "wait"
    /\ active_tasks > 0
    /\ get_responses # <<>>
    /\ get_responses' = Tail(get_responses)
    /\ active_tasks' = active_tasks - 1
    /\ IF Head(get_responses).ok
       THEN /\ bytes_copied' = bytes_copied + Head(get_responses).value
            /\ get_pc' = "wait"
       ELSE /\ bytes_copied' = bytes_copied
            /\ get_pc' = "finally"
    /\ UNCHANGED <<get_src, get_chunk_size, get_workers, get_offset, get_queue,
                   get_worker, tmp_file, local_target, chunks_completed, request_failed,
                   chunks_queued>>

\* dbfs.py:462  for _ in range(active_tasks): the responses the finally
\* block awaits.
StillDue_None(active) == 0
StillDue(active) == active

\* dbfs.py:461-464  after an exception the responses still due are awaited.
GetFinally ==
    /\ get_pc = "finally"
    /\ StillDue(active_tasks) > 0
    /\ get_responses # <<>>
    /\ get_responses' = Tail(get_responses)
    /\ active_tasks' = active_tasks - 1
    /\ UNCHANGED <<get_src, get_chunk_size, get_workers, get_pc, get_offset,
                   bytes_copied, get_queue, get_worker, tmp_file, local_target,
                   chunks_completed, request_failed,
                   chunks_queued>>

\* dbfs.py:466, 414, 406 and swarm.py:47-52, 69-72  every response is in:
\* the temporary file is renamed to the target, and run_while's wrapper
\* queues one sentinel per worker.
GetReturn ==
    /\ get_pc = "wait"
    /\ active_tasks = 0
    /\ local_target' = tmp_file
    /\ tmp_file' = NoFile
    /\ get_queue' = get_queue \o [k \in 1..get_workers |-> SentinelTask]
    /\ get_pc' = "terminating"
    /\ UNCHANGED <<get_src, get_chunk_size, get_workers, get_offset, active_tasks,
                   bytes_copied, get_worker, get_responses, chunks_completed, request_failed,
                   chunks_queued>>

\* dbfs.py:415-418 and swarm.py:49-52  the exception leaves the finally
\* block: the temporary file is removed and the sentinels are queued.
GetRaise ==
    /\ get_pc = "finally"
    /\ StillDue(active_tasks) = 0
    /\ tmp_file' = NoFile
    /\ get_queue' = get_queue \o [k \in 1..get_workers |-> SentinelTask]
    /\ get_pc' = "raising"
    /\ UNCHANGED <<get_src, get_chunk_size, get_workers, get_offset, active_tasks,
                   bytes_copied, get_worker, get_responses, local_target,
                   chunks_completed, request_failed,
                   chunks_queued>>

\* swarm.py:78-87  a worker takes the oldest task; a sentinel ends it.
GetWorkerGet(w) ==
    /\ get_worker[w].pc = "idle"
    /\ get_queue # <<>>
    /\ get_queue' = Tail(get_queue)
    /\ get_worker' = [get_worker EXCEPT ![w] =
           IF Head(get_queue).cb = "None"
           THEN [IdleGetWorker EXCEPT !.pc = "exited"]
           ELSE [pc |-> "get_chunk",
                 start |-> Head(get_queue).offset,
                 length |-> Head(get_queue).length,
                 offset |-> Head(get_queue).offset,
                 remaining |-> Head(get_queue).length]]
    /\ UNCHANGED <<get_src, get_chunk_size, get_workers, get_pc, get_offset,
                   active_tasks, bytes_copied, get_responses, tmp_file,
                   local_target, chunks_completed, request_failed,
                   chunks_queued>>

\* dbfs.py:374-393 with swarm.py:87-97  one read of _async_get_chunk: the
\* request asks for `length` bytes at `offset`; the bytes returned are
\* written at `offset`, and the task ends when nothing remains, or with an
\* exception when the request fails or returns more than remains.
GetChunkRead(w, request_ok, bytes_read) ==
    LET me == get_worker[w] IN
    /\ me.pc = "get_chunk"
    /\ bytes_read \in BytesReadable(me.offset, me.length)
    /\ IF ~request_ok \/ bytes_read > me.remaining
       THEN /\ get_responses' = Append(get_responses, [ok |-> FALSE, value |-> 0])
            /\ get_worker' = [get_worker EXCEPT ![w] = IdleGetWorker]
            /\ UNCHANGED <<tmp_file, chunks_completed>>
       ELSE /\ tmp_file' = [tmp_file EXCEPT !.content =
                   WriteAt(@, me.offset, ReadData(me.offset, bytes_read))]
            /\ IF me.remaining - bytes_read > 0
               THEN /\ get_worker' = [get_worker EXCEPT ![w] =
                           [me EXCEPT !.remaining = @ - bytes_read,
                                      !.offset = @ + bytes_read]]
                    /\ UNCHANGED <<get_responses, chunks_completed>>
               ELSE /\ get_worker' = [get_worker EXCEPT ![w] = IdleGetWorker]
                    /\ get_responses' = Append(get_responses,
                                               [ok |-> TRUE, value |-> me.length])
                    /\ chunks_completed' = Append(chunks_completed, me.start)
    /\ request_failed' = (request_failed \/ ~request_ok)
    /\ UNCHANGED <<get_src, get_chunk_size, get_workers, get_pc, get_offset,
                   active_tasks, bytes_copied, get_queue, local_target,
                   chunks_queued>>

\* swarm.py:54-61  run_while ends when its workers have.
GetEnd ==
    /\ get_pc \in {"terminating", "raising"}
    /\ \A w \in GetWorkers : get_worker[w].pc = "exited"
    /\ get_pc' = IF get_pc = "raising" THEN "raised" ELSE "returned"
    /\ UNCHANGED <<get_src, get_chunk_size, get_workers, get_offset, active_tasks,
                   bytes_copied, get_queue, get_worker, get_responses, tmp_file,
                   local_target, chunks_completed, request_failed,
                   chunks_queued>>

GetNext ==
    \/ \E ok \in BOOLEAN : GetStart(ok) /\ UNCHANGED notGet
    \/ GetDrain /\ UNCHANGED notGet
    \/ GetPut /\ UNCHANGED notGet
    \/ GetWait /\ UNCHANGED notGet
    \/ GetFinally /\ UNCHANGED notGet
    \/ GetReturn /\ UNCHANGED notGet
    \/ GetRaise /\ UNCHANGED notGet
    \/ \E w \in GetWorkers : GetWorkerGet(w) /\ UNCHANGED notGet
    \/ \E w \in GetWorkers, ok \in BOOLEAN, n \in 1..MaxChunkSize :
           GetChunkRead(w, ok, n) /\ UNCHANGED notGet
    \/ GetEnd /\ UNCHANGED notGet

GetEnded == get_pc \in {"returned", "raised"}

\* When get returns, the target holds the bytes of the remote file; until
\* then, and when get raises, it holds nothing.
ReturnedFileEqualsRemote ==
    /\ get_pc = "returned" => local_target = File(get_src)
    /\ get_pc \notin {"terminating", "returned"} => local_target = NoFile

\* C4: a get none of whose requests failed ends with a local file that holds
\* the bytes of the remote file, whatever the chunk size, the number of
\* workers and the order in which the chunk tasks ran and completed.
C4_GetProducesRemoteContent ==
    (GetEnded /\ ~request_failed) =>
        (get_pc = "returned" /\ local_target = File(get_src))

\* C24: the chunk tasks queued for a remote file of size S have windows of
\* min(chunk_size, S - offset) bytes, at least 1 and at most chunk_size, that
\* are pairwise disjoint and cover the bytes before the offset reached; once
\* the queueing loop has ended they cover [0, S) exactly, and for S = 0 no
\* chunk task is queued.
C24_ChunkWindowsPartitionFile ==
    LET S == Len(get_src)
        Windows == [i \in 1..Len(chunks_queued) |->
                       chunks_queued[i].offset
                       .. (chunks_queued[i].offset + chunks_queued[i].length - 1)]
    IN /\ \A i \in 1..Len(chunks_queued) :
              /\ chunks_queued[i].length >= 1
              /\ chunks_queued[i].length <= get_chunk_size
              /\ chunks_queued[i].length = Min(get_chunk_size, S - chunks_queued[i].offset)
       /\ \A i, j \in 1..Len(chunks_queued) : i # j => Windows[i] \cap Windows[j] = {}
       /\ UNION {Windows[i] : i \in 1..Len(chunks_queued)} = 0..(get_offset - 1)
       /\ get_pc \in {"wait", "terminating", "returned"} =>
              UNION {Windows[i] : i \in 1..Len(chunks_queued)} = 0..(S - 1)
       /\ S = 0 => chunks_queued = <<>>

C24_Witness ==
    /\ get_pc = "returned"
    /\ Len(get_src) = 3
    /\ get_chunk_size = 2
    /\ chunks_queued = <<ChunkTask(0, 2), ChunkTask(2, 1)>>

\* C25: while every read returns at least 1 byte and at most the bytes
\* asked for, and none fails, every chunk task ends well, and the chunks
\* completed have left the bytes of their windows in the file.
C25_ChunkTaskFillsWindow ==
    LET out == IF tmp_file.exists THEN tmp_file ELSE local_target IN
    ~request_failed =>
        /\ \A k \in 1..Len(get_responses) : get_responses[k].ok
        /\ get_pc \notin {"finally", "raising", "raised"}
        /\ out.exists =>
               \A i \in 1..Len(chunks_completed) :
                   \A k \in (chunks_completed[i] + 1)
                            .. Min(chunks_completed[i] + get_chunk_size, Len(get_src)) :
                       k <= Len(out.content) /\ out.content[k] = get_src[k]

\* The chunk tasks queued whose response the driver has not taken: those
\* waiting in the queue, those a worker is running, and those that ended
\* and whose response waits.
ChunksWaiting == {k \in 1..Len(get_queue) : get_queue[k].cb # "None"}
ChunksRunning == {w \in GetWorkers : get_worker[w].pc = "get_chunk"}
Outstanding == Cardinality(ChunksWaiting) + Cardinality(ChunksRunning) + Len(get_responses)

DriverEnded == get_pc \in {"terminating", "raising", "returned", "raised"}

\* C37: active_tasks counts exactly the chunk tasks queued whose response
\* is not yet consumed; whenever the driver of the download has returned or
\* raised, every chunk task it queued has ended and had its response
\* consumed, also when a chunk task failed while others were queued or
\* running, and from then on nothing writes to the output file.
C37_DriverEndsAfterItsTasks ==
    /\ [](/\ active_tasks = Outstanding
          /\ DriverEnded =>
                /\ active_tasks = 0
                /\ ChunksWaiting = {}
                /\ ChunksRunning = {}
                /\ get_responses = <<>>)
    /\ [][DriverEnded => (tmp_file' = tmp_file /\ local_target' = local_target)]_vars

\* C37 witness: the first of three chunk tasks failed while the second was
\* running and the third waited; the finally block has taken the response
\* of the second and waits for the third, which a worker is running.
C37_Witness ==
    /\ get_pc = "finally"
    /\ Len(chunks_queued) = 3
    /\ chunks_completed = <<1>>
    /\ active_tasks = 1
    /\ get_queue = <<>>
    /\ get_responses = <<>>
    /\ \E w \in GetWorkers : get_worker[w].pc = "get_chunk" /\ get_worker[w].start = 2

(***************************************************************************)
(*       DBFS._async_get: the temporary file and the target of a get       *)
(***************************************************************************)

\* dbfs.py:395-418.  What _async_get and _async_get_to_temp do to the local
\* file system around the download, which is the subject of SpecGet: here
\* _async_get_to_file is its get-status request followed by one read request
\* and one write per byte of the remote file, any of which can fail.

Nothing == [kind |-> "none", size |-> 0, fresh |-> FALSE]
OldFile == [kind |-> "file", size |-> 1, fresh |-> FALSE]
Directory == [kind |-> "dir", size |-> 0, fresh |-> FALSE]
NewFile(size) == [kind |-> "file", size |-> size, fresh |-> TRUE]

\* dbfs.py:402  os.path.exists(target)
PathExists_Never(path) == FALSE
PathExists(path) == path.kind # "none"

\* dbfs.py:415-418  os.remove(target) of the except block of
\* _async_get_to_temp, where `target` is the name of the temporary file
TmpAfterExcept(tmp) == Nothing

GetTargetIdle ==
    /\ get_overwrite = FALSE
    /\ remote_size = 0
    /\ get_target = Nothing
    /\ target_before = Nothing
    /\ tmp_fn = Nothing
    /\ tmp_made = FALSE
    /\ get_requests = 0
    /\ gt_pc = "idle"
    /\ gt_error = "None"

GetTargetInit ==
    /\ get_overwrite \in BOOLEAN
    /\ remote_size \in 0..MaxFileLen
    /\ get_target \in {Nothing, OldFile, Directory}
    /\ target_before = get_target
    /\ tmp_fn = Nothing
    /\ tmp_made = FALSE
    /\ get_requests = 0
    /\ gt_pc = "start"
    /\ gt_error = "None"

\* dbfs.py:397-403  the parent directory is made and the target that exists
\* is refused unless overwrite
GtCheck ==
    /\ gt_pc = "start"
    /\ IF ~get_overwrite /\ PathExists(get_target)
       THEN gt_pc' = "raised" /\ gt_error' = "File already exists"
       ELSE gt_pc' = "mkstemp" /\ UNCHANGED gt_error
    /\ UNCHANGED <<get_overwrite, remote_size, get_target, target_before, tmp_fn,
                   tmp_made, get_requests>>

\* dbfs.py:411-412, 415-418  tempfile.mkstemp in the parent directory; when
\* it raises there is no file to remove
GtMkstemp(ok) ==
    /\ gt_pc = "mkstemp"
    /\ IF ok
       THEN /\ tmp_fn' = NewFile(0)
            /\ tmp_made' = TRUE
            /\ gt_pc' = "status"
            /\ UNCHANGED gt_error
       ELSE /\ gt_pc' = "raised"
            /\ gt_error' = "mkstemp"
            /\ UNCHANGED <<tmp_fn, tmp_made>>
    /\ UNCHANGED <<get_overwrite, remote_size, get_target, target_before, get_requests>>

\* dbfs.py:422 with 415-418  the get-status request of _async_get_to_file
GtStatus(ok) ==
    /\ gt_pc = "status"
    /\ get_requests' = get_requests + 1
    /\ IF ok
       THEN gt_pc' = "chunks" /\ UNCHANGED <<tmp_fn, gt_error>>
       ELSE /\ tmp_fn' = TmpAfterExcept(tmp_fn)
            /\ gt_pc' = "raised"
            /\ gt_error' = "status"
    /\ UNCHANGED <<get_overwrite, remote_size, get_target, target_before, tmp_made>>

\* dbfs.py:371-393, 431-464 with 415-418  a read request and the write of
\* what it returned: the request fails, or the write does, or the temporary
\* file grows
GtChunk(outcome) ==
    /\ gt_pc = "chunks"
    /\ tmp_fn.size < remote_size
    /\ get_requests' = get_requests + 1
    /\ IF outcome = "ok"
       THEN /\ tmp_fn' = [tmp_fn EXCEPT !.size = @ + 1]
            /\ UNCHANGED <<gt_pc, gt_error>>
       ELSE /\ tmp_fn' = TmpAfterExcept(tmp_fn)
            /\ gt_pc' = "raised"
            /\ gt_error' = outcome
    /\ UNCHANGED <<get_overwrite, remote_size, get_target, target_before, tmp_made>>

\* dbfs.py:406  os.rename(tmp_fn, target), outside every try block: it
\* replaces a file, and raises for a target that is a directory or when the
\* system refuses it
GtRename(ok) ==
    /\ gt_pc = "chunks"
    /\ tmp_fn.size = remote_size
    /\ IF ok /\ get_target.kind # "dir"
       THEN /\ get_target' = tmp_fn
            /\ tmp_fn' = Nothing
            /\ gt_pc' = "returned"
            /\ UNCHANGED gt_error
       ELSE /\ gt_pc' = "raised"
            /\ gt_error' = "rename"
            /\ UNCHANGED <<get_target, tmp_fn>>
    /\ UNCHANGED <<get_overwrite, remote_size, target_before, tmp_made, get_requests>>

GetTargetNext ==
    \/ GtCheck /\ UNCHANGED notGetTarget
    \/ \E ok \in BOOLEAN : GtMkstemp(ok) /\ UNCHANGED notGetTarget
    \/ \E ok \in BOOLEAN : GtStatus(ok) /\ UNCHANGED notGetTarget
    \/ \E outcome \in {"ok", "request", "write"} : GtChunk(outcome) /\ UNCHANGED notGetTarget
    \/ \E ok \in BOOLEAN : GtRename(ok) /\ UNCHANGED notGetTarget

\* C18: the target changes only by the rename of a temporary file that holds
\* the whole remote file, and when get raises, for whatever reason, no
\* temporary file is left and the target is as it was.
C18_NoPartialTargetNoStrayTemp ==
    /\ get_target # target_before =>
           (gt_pc = "returned" /\ get_target = NewFile(remote_size))
    /\ gt_pc = "raised" => (tmp_fn = Nothing /\ get_target = target_before)

\* C19: when overwrite is false and the target exists, get raises without
\* having made a temporary file or sent a request, and the target is as it
\* was.
C19_ExistingTargetRefusedFirst ==
    (~get_overwrite /\ target_before # Nothing) =>
        /\ gt_pc \in {"start", "raised"}
        /\ gt_pc = "raised" => gt_error = "File already exists"
        /\ ~tmp_made
        /\ tmp_fn = Nothing
        /\ get_requests = 0
        /\ get_target = target_before

C19_Witness ==
    /\ ~get_overwrite
    /\ target_before = OldFile
    /\ gt_pc = "raised"
    /\ gt_error = "File already exists"

(***************************************************************************)
(*        DBFS.put and DBFS._async_stream_put_from_file: the upload        *)
(***************************************************************************)

\* Bounds of the uploads explored.
MaxLocalLen == 3
MaxPutChunkSize == 2

NoRemote == [exists |-> FALSE, size |-> 0]
Remote(size) == [exists |-> TRUE, size |-> size]

PutIdle ==
    /\ put_entry = "none"
    /\ put_size = 0
    /\ put_chunk_size = 1
    /\ put_overwrite = FALSE
    /\ put_pc = "idle"
    /\ put_bytes_copied = 0
    /\ handle_size = 0
    /\ remote_target = NoRemote
    /\ status_size = 0
    /\ put_error = "None"
    /\ created = FALSE
    /\ delete_requests = 0
    /\ put_requests = <<>>

\* The upload is entered through DBFS.put, or _async_stream_put_from_file is
\* called as it stands; the target exists already or not.
PutInit ==
    /\ put_entry \in {"put", "stream_put"}
    /\ put_size \in 0..MaxLocalLen
    /\ put_chunk_size \in 1..MaxPutChunkSize
    /\ put_overwrite \in BOOLEAN
    /\ put_pc = "start"
    /\ put_bytes_copied = 0
    /\ handle_size = 0
    /\ remote_target \in {NoRemote, Remote(0), Remote(1)}
    /\ status_size = 0
    /\ put_error = "None"
    /\ created = FALSE
    /\ delete_requests = 0
    /\ put_requests = <<>>

\* dbfs.py:296  the file goes through the streaming upload
NeedsStream_AtChunkSize(size) == size >= put_chunk_size
NeedsStream(size) == size > put_chunk_size

\* dbfs.py:309-313, 319-321, 325-328, 331-333, 356  a request of the upload:
\* what it is, the window of the local file it carries and whether the
\* backend accepted it
PutRequest(op, offset, len, ok) == [op |-> op, offset |-> offset, len |-> len, ok |-> ok]

\* dbfs.py:360-363  what the except block leaves of the target: the call
\* self._async_rm(target) lacks the session argument, raises TypeError before
\* any request is made, and the TypeError is swallowed.
RemoteAfterCleanup(target) == target

\* dbfs.py:361  the delete requests sent once the except block has run: the
\* TypeError comes before _async_http_post is reached.
DeleteRequestsAfterCleanup(n) == n

\* api/2.0/dbfs/put and api/2.0/dbfs/create refuse an existing path unless
\* overwrite is set.
CreateRefused == remote_target.exists /\ ~put_overwrite

\* dbfs.py:288-301  _async_put on a file larger than chunk_size: the name
\* _async_stream_put_from_file is not defined in the scope of the call
\* (it is a method), so NameError is raised before any request.
PutLarge ==
    /\ put_pc = "start"
    /\ put_entry = "put"
    /\ NeedsStream(put_size)
    /\ put_pc' = "raised"
    /\ put_error' = "NameError"
    /\ UNCHANGED <<put_entry, put_size, put_chunk_size, put_overwrite,
                   put_bytes_copied, handle_size, remote_target, status_size,
                   created, delete_requests, put_requests>>

\* dbfs.py:302-315  _async_put on a file of at most chunk_size bytes: the
\* file is read until `size` bytes are there (it raises when the file ends
\* before), then one api/2.0/dbfs/put request with the whole content.
PutSmall(read_ok, request_ok) ==
    /\ put_pc = "start"
    /\ put_entry = "put"
    /\ ~NeedsStream(put_size)
    /\ IF ~read_ok
       THEN /\ put_size > 0
            /\ put_pc' = "raised"
            /\ put_error' = "Unable to read data from local file"
            /\ UNCHANGED <<remote_target, put_bytes_copied, put_requests>>
       ELSE /\ put_requests' = Append(put_requests,
                    PutRequest("put", 0, put_size, request_ok /\ ~CreateRefused))
            /\ IF request_ok /\ ~CreateRefused
               THEN /\ remote_target' = Remote(put_size)
                    /\ put_bytes_copied' = put_size
                    /\ put_pc' = "returned"
                    /\ put_error' = "None"
               ELSE /\ put_pc' = "raised"
                    /\ put_error' = "request"
                    /\ UNCHANGED <<remote_target, put_bytes_copied>>
    /\ UNCHANGED <<put_entry, put_size, put_chunk_size, put_overwrite,
                   handle_size, status_size, created, delete_requests>>

\* dbfs.py:338-339  api/2.0/dbfs/create, outside the try block: the target
\* is created empty and a handle is opened on it.
StreamCreate(request_ok) ==
    /\ put_pc = "start"
    /\ put_entry = "stream_put"
    /\ put_requests' = Append(put_requests,
           PutRequest("create", 0, 0, request_ok /\ ~CreateRefused))
    /\ IF request_ok /\ ~CreateRefused
       THEN /\ remote_target' = Remote(0)
            /\ handle_size' = 0
            /\ put_pc' = "blocks"
            /\ put_error' = "None"
            /\ created' = TRUE
       ELSE /\ put_pc' = "raised"
            /\ put_error' = "request"
            /\ UNCHANGED <<remote_target, handle_size, created>>
    /\ UNCHANGED <<put_entry, put_size, put_chunk_size, put_overwrite,
                   put_bytes_copied, status_size, delete_requests>>

\* dbfs.py:342-352, 360-363  a chunk is read and sent with add-block; the
\* backend appends what it stores of it to the handle.
StreamAddBlock(request_ok, stored) ==
    LET chunk_len == Min(put_chunk_size, put_size - put_bytes_copied) IN
    /\ put_pc = "blocks"
    /\ chunk_len > 0
    /\ stored \in 0..chunk_len
    /\ put_requests' = Append(put_requests,
           PutRequest("add-block", put_bytes_copied, chunk_len, request_ok))
    /\ IF request_ok
       THEN /\ handle_size' = handle_size + stored
            /\ put_bytes_copied' = put_bytes_copied + chunk_len
            /\ UNCHANGED <<put_pc, put_error, remote_target, delete_requests>>
       ELSE /\ remote_target' = RemoteAfterCleanup(remote_target)
            /\ delete_requests' = DeleteRequestsAfterCleanup(delete_requests)
            /\ put_pc' = "raised"
            /\ put_error' = "request"
            /\ UNCHANGED <<handle_size, put_bytes_copied>>
    /\ UNCHANGED <<put_entry, put_size, put_chunk_size, put_overwrite, status_size,
                   created>>

\* dbfs.py:345-346, 354, 360-363  the local file is exhausted and the handle
\* closed: the target holds what the handle received.
StreamClose(request_ok) ==
    /\ put_pc = "blocks"
    /\ put_size - put_bytes_copied = 0
    /\ put_requests' = Append(put_requests, PutRequest("close", 0, 0, request_ok))
    /\ IF request_ok
       THEN /\ remote_target' = Remote(handle_size)
            /\ put_pc' = "closed"
            /\ UNCHANGED <<put_error, delete_requests>>
       ELSE /\ remote_target' = RemoteAfterCleanup(remote_target)
            /\ delete_requests' = DeleteRequestsAfterCleanup(delete_requests)
            /\ put_pc' = "raised"
            /\ put_error' = "request"
    /\ UNCHANGED <<put_entry, put_size, put_chunk_size, put_overwrite,
                   put_bytes_copied, handle_size, status_size, created>>

\* dbfs.py:356-363  the status of the target is fetched and its size compared
\* with the bytes sent.
StreamVerify(request_ok) ==
    /\ put_pc = "closed"
    /\ put_requests' = Append(put_requests, PutRequest("get-status", 0, 0, request_ok))
    /\ IF ~request_ok
       THEN /\ remote_target' = RemoteAfterCleanup(remote_target)
            /\ delete_requests' = DeleteRequestsAfterCleanup(delete_requests)
            /\ put_pc' = "raised"
            /\ put_error' = "request"
            /\ UNCHANGED status_size
       ELSE /\ status_size' = remote_target.size
            /\ IF remote_target.size # put_bytes_copied
               THEN /\ remote_target' = RemoteAfterCleanup(remote_target)
                    /\ delete_requests' = DeleteRequestsAfterCleanup(delete_requests)
                    /\ put_pc' = "raised"
                    /\ put_error' = "corrupted copy"
               ELSE /\ put_pc' = "returned"
                    /\ UNCHANGED <<remote_target, put_error, delete_requests>>
    /\ UNCHANGED <<put_entry, put_size, put_chunk_size, put_overwrite,
                   put_bytes_copied, handle_size, created>>

PutNext ==
    \/ PutLarge /\ UNCHANGED notPut
    \/ \E read_ok, ok \in BOOLEAN : PutSmall(read_ok, ok) /\ UNCHANGED notPut
    \/ \E ok \in BOOLEAN : StreamCreate(ok) /\ UNCHANGED notPut
    \/ \E ok \in BOOLEAN, n \in 0..MaxPutChunkSize : StreamAddBlock(ok, n) /\ UNCHANGED notPut
    \/ \E ok \in BOOLEAN : StreamClose(ok) /\ UNCHANGED notPut
    \/ \E ok \in BOOLEAN : StreamVerify(ok) /\ UNCHANGED notPut

\* C5: after the upload returns, the target exists with the size of the
\* local file; and when the upload fails because the backend reports another
\* size after close, the target does not exist.
C5_UploadVerified ==
    /\ put_pc = "returned" => remote_target = Remote(put_size)
    /\ (put_pc = "raised" /\ put_error = "corrupted copy") => ~remote_target.exists

\* C20: when the streaming upload raises after api/2.0/dbfs/create has
\* succeeded (an add-block, the close or the get-status failed, or the size
\* differs), a delete request for the target has been sent.
C20_DeleteRequestedOnFailure ==
    (put_pc = "raised" /\ created) => delete_requests >= 1

PutEnded == put_pc \in {"returned", "raised"}

NoPutRequestFailed == \A i \in 1..Len(put_requests) : put_requests[i].ok

Blocks(size, chunk_size) == (size + chunk_size - 1) \div chunk_size

\* create, the consecutive blocks of the file in file order, close, get-status
StreamRequests(size, chunk_size) ==
    <<PutRequest("create", 0, 0, TRUE)>>
    \o [i \in 1..Blocks(size, chunk_size) |->
           PutRequest("add-block", (i - 1) * chunk_size,
                      Min(chunk_size, size - (i - 1) * chunk_size), TRUE)]
    \o <<PutRequest("close", 0, 0, TRUE), PutRequest("get-status", 0, 0, TRUE)>>

\* C22: put of a local file larger than chunk_size sends create, then the
\* ceil(size / chunk_size) consecutive blocks of the file in file order with
\* add-block, each after the one before succeeded, then close, then
\* get-status, and no put request: what it has sent is a beginning of that
\* sequence, and all of it once put has ended with no request refused.
C22_LargeFileStreamed ==
    (put_entry = "put" /\ put_size > put_chunk_size) =>
        /\ \E n \in 0..Len(StreamRequests(put_size, put_chunk_size)) :
               /\ Len(put_requests) = n
               /\ \A i \in 1..n :
                      /\ put_requests[i].op = StreamRequests(put_size, put_chunk_size)[i].op
                      /\ put_requests[i].offset = StreamRequests(put_size, put_chunk_size)[i].offset
                      /\ put_requests[i].len = StreamRequests(put_size, put_chunk_size)[i].len
                      /\ i < n => put_requests[i].ok
        /\ (PutEnded /\ NoPutRequestFailed) =>
               put_requests = StreamRequests(put_size, put_chunk_size)

\* C23: put of a local file of at most chunk_size bytes (chunk_size bytes
\* and no byte included) sends nothing but one put request that carries the
\* whole file, and has sent it when it ends having read the file.
C23_SmallFileOnePut ==
    (put_entry = "put" /\ put_size <= put_chunk_size) =>
        /\ \A i \in 1..Len(put_requests) :
               /\ i = 1
               /\ put_requests[i].op = "put"
               /\ put_requests[i].offset = 0
               /\ put_requests[i].len = put_size
        /\ (PutEnded /\ put_error # "Unable to read data from local file") =>
               Len(put_requests) = 1

C23_Witness ==
    /\ put_entry = "put"
    /\ put_size = put_chunk_size
    /\ put_pc = "returned"
    /\ put_requests = <<PutRequest("put", 0, put_size, TRUE)>>

(***************************************************************************)
(*                  DBFS.rget: the recursive download                      *)
(***************************************************************************)

\* dbfs.py:587-681.  _async_rget runs _async_find as the driver of the high
\* Swarm, with find_cb as its update_cb: a directory is made locally and
\* reported at once, a file that is still good is queued on the high Swarm as
\* an _async_get and reported when its response is read, from the next find_cb
\* or from the loop that follows find.  The download itself is the subject of
\* SpecGet; here an _async_get ends with the local file written or with an
\* exception.  The local mkdirs succeeds.  mirror.py:23-120 (Mirror.mirror),
\* which no module imports, has the same structure.

\* fi.mtime() of every remote file, in milliseconds, and st_mtime_ns of a
\* local file: one left by an older download, one written by the command.
RemoteMtime == 1
StaleMtimeNs == 0
LocalClockNs == 2000000

\* os.stat of a local file
LocalFile(relpath, size, mtime_ns) ==
    [relpath |-> relpath, st_size |-> size, st_mtime_ns |-> mtime_ns]

LocalExists(relpath) == \E f \in local_files : f.relpath = relpath

\* dbfs.py:572-585  _needs_sync(local_path, fi); os.stat raises for a file
\* that is not there.
NeedsSync_Always(relpath, fi) == TRUE
NeedsSync(relpath, fi) ==
    IF ~LocalExists(relpath) THEN TRUE
    ELSE LET st == CHOOSE f \in local_files : f.relpath = relpath
         IN IF st.st_size # fi.size THEN TRUE
            ELSE IF st.st_mtime_ns < RemoteMtime * 1000000 THEN TRUE
            ELSE FALSE

\* The directories mkdirs makes for a local path: the path and those above
\* it, down from the target, which is ".".
LocalParent(relpath) ==
    IF PosixSplitHead(relpath) = <<>> THEN Dot ELSE PosixSplitHead(relpath)

MkdirsOf(relpath) ==
    IF relpath = Dot THEN {Dot}
    ELSE {relpath, LocalParent(relpath), Dot}

\* dbfs.py:606-608  update(entry): one call of the caller's update_cb
Report(entry, max_entries, done) ==
    [entry |-> entry, max_entries |-> max_entries, done |-> done]

\* dbfs.py:611-612  update_after_get: the entry takes the exception of the
\* response, or None.
UpdateAfterGet_NoEx(entry, res) == entry
UpdateAfterGet(entry, res) == [entry EXCEPT !.ex = ~res.ok]

\* dbfs.py:610-622  empty_response_queue(): update_after_get for every
\* response queued, oldest first.  The calls of update_cb it makes:
EmptyResponseQueue_Silent(responses, active, max_entries) == <<>>
RECURSIVE EmptyResponseQueue(_, _, _)
EmptyResponseQueue(responses, active, max_entries) ==
    IF responses = <<>> THEN <<>>
    ELSE LET res == Head(responses)
             entry == CHOOSE e \in active : Relpath(e.fi, FindPath) = res.relpath
             left == active \ {entry}
         IN <<Report(UpdateAfterGet(entry, res), max_entries,
                     max_entries - Cardinality(left))>>
            \o EmptyResponseQueue(Tail(responses), left, max_entries)

\* active_gets after those pops
ActiveAfter_Kept(responses, active) == active
ActiveAfter(responses, active) ==
    {e \in active : \A i \in 1..Len(responses) :
                        responses[i].relpath # Relpath(e.fi, FindPath)}

\* dbfs.py:634-651  what find_cb makes of entry.good
GoodForRget(e) ==
    LET relpath == Relpath(e.fi, FindPath)
    IN IF e.fi.is_dir
       THEN IF relpath \in local_dirs THEN FALSE ELSE e.good
       ELSE IF rget_sync /\ e.good /\ ~NeedsSync(relpath, e.fi) THEN FALSE
            ELSE e.good

\* The wrappers of the high Swarm
HighTask(relpath, size, overwrite) ==
    [sentinel |-> FALSE, relpath |-> relpath, size |-> size, overwrite |-> overwrite]
HighSentinel == [sentinel |-> TRUE, relpath |-> <<>>, size |-> 0, overwrite |-> FALSE]

\* dbfs.py:591-592  `if sync: overwrite=True`: the overwrite every _async_get
\* of the command is queued with (dbfs.py:659).
RgetOverwrite_AsPassed(sync, overwrite) == overwrite
RgetOverwrite(sync, overwrite) == IF sync THEN TRUE ELSE overwrite
IdleHighWorker == [pc |-> "idle", task |-> HighSentinel]

NoEntry == FindEntry(FileInfo(<<>>, FALSE, 0), FALSE, FALSE, FALSE)

\* Where control() of _async_find is after an update_cb returned
\* (dbfs.py:529, 531, 557).
AfterCallback(left) ==
    IF left = <<>> THEN "terminating"
    ELSE IF Head(left).done THEN "emit" ELSE "control"

\* The remote trees of this part: every file has MaxFileSize bytes.
RgetTrees == {t \in Trees : \A fi \in t : ~fi.is_dir => fi.size = MaxFileSize}

\* What the local target holds before the command: copies of the files
\* right below the root, and no directory.  The copy of "a" is complete and
\* older than the remote file, the copy of "a-" is as new as a download of
\* the command and one byte short, and the copy of any other file is complete
\* and new.
StaleCopy(t) ==
    {LocalFile(Relpath(fi, FindPath),
               IF Relpath(fi, FindPath) = <<"a", "-">> THEN fi.size - 1 ELSE fi.size,
               IF Relpath(fi, FindPath) = <<"a">> THEN StaleMtimeNs ELSE LocalClockNs) :
         fi \in {x \in t : ~x.is_dir /\ PosixSplitHead(x.abspath) = FindPath}}

\* The external filters of this part: none, and one that keeps the root and
\* the entries right below it.
RgetFilters == {f \in Filters : ~f.set \/ Dot \in f.selected}

RgetIdle ==
    /\ rget_pc = "idle"
    /\ rget_sync = FALSE
    /\ rget_overwrite = FALSE
    /\ rget_run = 0
    /\ entries = 0
    /\ active_gets = {}
    /\ cb_entry = NoEntry
    /\ high_queue = <<>>
    /\ high_worker = [w \in FindWorkers |-> IdleHighWorker]
    /\ high_terminate_ix = 0
    /\ rget_responses = <<>>
    /\ local_files = {}
    /\ local_dirs = {}
    /\ reported = <<>>
    /\ walked = <<>>
    /\ enqueued = <<>>
    /\ transfers_ended = {}
    /\ first_run = "None"

\* dbfs.py:599-604  the state of _async_rget before find starts
RgetInit ==
    /\ tree \in RgetTrees
    /\ predicates = [type |-> "None", max_size |-> <<>>, min_size |-> <<>>]
    /\ filter_cb \in RgetFilters
    /\ find_pc = "start"
    /\ pending = <<>>
    /\ entries_found = 0
    /\ find_queue = {}
    /\ find_worker = [w \in FindWorkers |-> IdleWorker]
    /\ find_responses = {}
    /\ emitted = <<>>
    /\ listings_failed = {}
    /\ rget_pc = "find"
    /\ rget_sync \in BOOLEAN
    /\ rget_overwrite \in BOOLEAN
    /\ rget_run = 1
    /\ entries = 1
    /\ active_gets = {}
    /\ cb_entry = NoEntry
    /\ high_queue = <<>>
    /\ high_worker = [w \in FindWorkers |-> IdleHighWorker]
    /\ high_terminate_ix = 0
    /\ rget_responses = <<>>
    /\ local_files = StaleCopy(tree)
    /\ local_dirs = {}
    /\ reported = <<>>
    /\ walked = <<>>
    /\ enqueued = <<>>
    /\ transfers_ended = {}
    /\ first_run = "None"

\* dbfs.py:511-528 under _async_rget: the root that is no directory is passed
\* to find_cb as update_cb(entry=..., entries_found=1, done=1), which find_cb
\* (entry, max_entries, done) refuses with a TypeError, so find raises.
RgetFindStart(status_ok) ==
    /\ rget_pc = "find"
    /\ find_pc = "start"
    /\ IF ~status_ok \/ FilterRaises({GetStatus(FindPath)})
          \/ ~GetStatus(FindPath).is_dir
       THEN /\ find_pc' = "raised"
            /\ UNCHANGED <<pending, entries_found, find_queue>>
       ELSE /\ find_queue' = {StrKey(FindPath)}
            /\ pending' = <<FilterEntry(FindEntry(GetStatus(FindPath), TRUE, FALSE, FALSE))>>
            /\ entries_found' = 1
            /\ find_pc' = "control"
    /\ UNCHANGED <<tree, predicates, filter_cb, find_worker, find_responses,
                   emitted, listings_failed>>
    /\ UNCHANGED rgetVars

\* dbfs.py:531-554  the round of control() up to its reports: a response is
\* taken, its entry marked, the listing filtered, added and sorted and its
\* directories queued.
RgetControlRound ==
    /\ rget_pc = "find"
    /\ find_pc = "control"
    /\ find_responses # {}
    /\ LET key == MinStr({res.key : res \in find_responses})
           res == CHOOSE res \in find_responses : res.key = key
           fis == IF res.ok THEN ListFiles(key) ELSE {}
       IN /\ find_responses' = find_responses \ {res}
          /\ IF \/ ~\E k \in 1..Len(pending) : pending[k].fi.abspath = key
                \/ fis # {} /\ FilterRaises(fis)
             THEN /\ find_pc' = "raising"
                  /\ find_queue' = find_queue \cup Sentinels
                  /\ UNCHANGED <<pending, entries_found>>
             ELSE LET marked == MarkDone(pending, key, ~res.ok)
                      new == [k \in 1..Cardinality(fis) |->
                                 FilterEntry(NewEntry(SetToSeq(fis)[k]))]
                      sorted == IF fis # {} THEN SortByAbspath(marked \o new)
                                ELSE marked
                  IN /\ entries_found' = entries_found + Cardinality(fis)
                     /\ pending' = sorted
                     /\ find_queue' =
                            find_queue
                            \cup {StrKey(fi.abspath) : fi \in {x \in fis : x.is_dir}}
                     /\ find_pc' = AfterCallback(sorted)
    /\ UNCHANGED <<tree, predicates, filter_cb, find_worker, emitted, listings_failed>>
    /\ UNCHANGED rgetVars

\* dbfs.py:661  active_gets[relpath] = entry
ActiveWith_Unrecorded(active, entry) == active
ActiveWith(active, entry) == active \cup {entry}

\* swarm.py:99-105  high_swarm.put returns and dbfs.py:661-662 follow
\* before anything else runs: neither the end of Queue.put nor the
\* assignment suspends find_cb.
Schedule(entry, active) ==
    /\ high_queue' = Append(high_queue,
                            HighTask(Relpath(entry.fi, FindPath), entry.fi.size,
                                     RgetOverwrite(rget_sync, rget_overwrite)))
    /\ active_gets' = ActiveWith(active, entry)
    /\ enqueued' = Append(enqueued, Relpath(entry.fi, FindPath))
    /\ cb_entry' = NoEntry
    /\ find_pc' = AfterCallback(pending')
    /\ find_queue' = IF pending' = <<>> THEN find_queue \cup Sentinels ELSE find_queue

\* dbfs.py:557-560 with 624-666  control() pops the first entry, which is
\* done, and awaits find_cb: the responses queued are reported, then the
\* directory is made, or the file is queued or discarded.  A full queue of
\* the high Swarm suspends find_cb inside high_swarm.put.
RgetFindCb ==
    /\ rget_pc = "find"
    /\ find_pc = "emit"
    /\ LET e == Head(pending)
           max_entries == entries_found
           reports == EmptyResponseQueue(rget_responses, active_gets, entries)
           active == ActiveAfter(rget_responses, active_gets)
           relpath == Relpath(e.fi, FindPath)
           entry == [e EXCEPT !.good = GoodForRget(e)]
       IN /\ pending' = Tail(pending)
          /\ walked' = Append(walked, e)
          /\ rget_responses' = <<>>
          /\ entries' = max_entries
          /\ IF ~e.fi.is_dir /\ entry.good
             THEN /\ reported' = reported \o reports
                  /\ UNCHANGED local_dirs
                  /\ IF Len(high_queue) < MaxFindWorkers
                     THEN Schedule(entry, active)
                     ELSE /\ cb_entry' = entry
                          /\ active_gets' = active
                          /\ find_pc' = "cb_put"
                          /\ UNCHANGED <<high_queue, enqueued, find_queue>>
             ELSE /\ reported' = reported \o reports \o
                        <<Report(entry, max_entries, max_entries - Cardinality(active))>>
                  /\ local_dirs' = IF e.fi.is_dir /\ entry.good
                                   THEN local_dirs \cup MkdirsOf(relpath)
                                   ELSE local_dirs
                  /\ active_gets' = active
                  /\ find_pc' = AfterCallback(pending')
                  /\ find_queue' = IF pending' = <<>> THEN find_queue \cup Sentinels
                                   ELSE find_queue
                  /\ UNCHANGED <<high_queue, enqueued, cb_entry>>
    /\ UNCHANGED <<tree, predicates, filter_cb, entries_found, find_worker,
                   find_responses, emitted, listings_failed>>
    /\ UNCHANGED <<rget_pc, rget_sync, rget_overwrite, rget_run, high_worker, high_terminate_ix,
                   local_files, transfers_ended, first_run>>

\* swarm.py:105  the put that waited finds room in the queue
RgetFindCbPut ==
    /\ rget_pc = "find"
    /\ find_pc = "cb_put"
    /\ Len(high_queue) < MaxFindWorkers
    /\ pending' = pending
    /\ Schedule(cb_entry, active_gets)
    /\ UNCHANGED <<tree, predicates, filter_cb, entries_found, find_worker,
                   find_responses, emitted, listings_failed>>
    /\ UNCHANGED <<rget_pc, rget_sync, rget_overwrite, rget_run, entries, high_worker,
                   high_terminate_ix, rget_responses, local_files, local_dirs,
                   reported, walked, transfers_ended, first_run>>

\* swarm.py:78-84  a worker of the high Swarm takes the oldest wrapper.  The
\* workers run the same code on the same queue, so which of the waiting ones
\* the queue wakes makes no difference: it is the first of them here.
HighWorkerGet(w) ==
    /\ high_worker[w].pc = "idle"
    /\ \A v \in FindWorkers : v < w => high_worker[v].pc # "idle"
    /\ high_queue # <<>>
    /\ high_worker' = [high_worker EXCEPT ![w] =
           IF Head(high_queue).sentinel THEN [pc |-> "exited", task |-> HighSentinel]
           ELSE [pc |-> "running", task |-> Head(high_queue)]]
    /\ high_queue' = Tail(high_queue)
    /\ UNCHANGED findVars
    /\ UNCHANGED <<rget_pc, rget_sync, rget_overwrite, rget_run, entries, active_gets, cb_entry,
                   high_terminate_ix, rget_responses, local_files, local_dirs,
                   reported, walked, enqueued, transfers_ended, first_run>>

\* dbfs.py:395-406 with swarm.py:85-97  the _async_get of a worker ends: the
\* parent directory is there, the file that exists is refused unless
\* overwrite, the download ends well or raises, and the response is queued.
HighWorkerEnd(w, get_ok) ==
    /\ high_worker[w].pc = "running"
    /\ LET task == high_worker[w].task
           refused == ~task.overwrite /\ LocalExists(task.relpath)
           ok == get_ok /\ ~refused
       IN /\ local_dirs' = local_dirs \cup {LocalParent(task.relpath), Dot}
          /\ local_files' =
                 IF ok
                 THEN {f \in local_files : f.relpath # task.relpath}
                      \cup {LocalFile(task.relpath, task.size, LocalClockNs)}
                 ELSE local_files
          /\ rget_responses' = Append(rget_responses,
                                      [relpath |-> task.relpath, ok |-> ok])
          /\ transfers_ended' = transfers_ended
                 \cup {[relpath |-> task.relpath, ok |-> ok]}
    /\ high_worker' = [high_worker EXCEPT ![w] = IdleHighWorker]
    /\ UNCHANGED findVars
    /\ UNCHANGED <<rget_pc, rget_sync, rget_overwrite, rget_run, entries, active_gets, cb_entry,
                   high_queue, high_terminate_ix, reported, walked, enqueued,
                   first_run>>

\* swarm.py:52, 69-72  find has ended and the wrapper of the high Swarm
\* queues one sentinel per worker, each when the queue has room.
RgetHighTerminate ==
    /\ rget_pc = "find"
    /\ find_pc \in {"returned", "raised"}
    /\ high_terminate_ix < MaxFindWorkers
    /\ Len(high_queue) < MaxFindWorkers
    /\ high_queue' = Append(high_queue, HighSentinel)
    /\ high_terminate_ix' = high_terminate_ix + 1
    /\ UNCHANGED findVars
    /\ UNCHANGED <<rget_pc, rget_sync, rget_overwrite, rget_run, entries, active_gets, cb_entry,
                   high_worker, rget_responses, local_files, local_dirs, reported,
                   walked, enqueued, transfers_ended, first_run>>

\* swarm.py:55-61 with dbfs.py:671-681  the workers of the high Swarm have
\* ended: run_while raises what find raised, which ends _async_rget through
\* the low Swarm, or control() goes on to its loop.
RgetHighJoin ==
    /\ rget_pc = "find"
    /\ high_terminate_ix = MaxFindWorkers
    /\ \A w \in FindWorkers : high_worker[w].pc = "exited"
    /\ rget_pc' = IF find_pc = "raised" THEN "raised" ELSE "drain"
    /\ UNCHANGED findVars
    /\ UNCHANGED <<rget_sync, rget_overwrite, rget_run, entries, active_gets, cb_entry, high_queue,
                   high_worker, high_terminate_ix, rget_responses, local_files,
                   local_dirs, reported, walked, enqueued, transfers_ended,
                   first_run>>

\* dbfs.py:676-679  one turn of `while active_gets`
RgetDrain ==
    /\ rget_pc = "drain"
    /\ active_gets # {}
    /\ rget_responses # <<>>
    /\ reported' = reported \o
           EmptyResponseQueue(<<Head(rget_responses)>>, active_gets, entries)
    /\ active_gets' = ActiveAfter(<<Head(rget_responses)>>, active_gets)
    /\ rget_responses' = Tail(rget_responses)
    /\ UNCHANGED findVars
    /\ UNCHANGED <<rget_pc, rget_sync, rget_overwrite, rget_run, entries, cb_entry, high_queue,
                   high_worker, high_terminate_ix, local_files, local_dirs, walked,
                   enqueued, transfers_ended, first_run>>

\* dbfs.py:676, 681  active_gets is empty: control() returns, the low Swarm
\* is terminated and _async_rget returns.
RgetReturn ==
    /\ rget_pc = "drain"
    /\ active_gets = {}
    /\ rget_pc' = "returned"
    /\ UNCHANGED findVars
    /\ UNCHANGED <<rget_sync, rget_overwrite, rget_run, entries, active_gets, cb_entry, high_queue,
                   high_worker, high_terminate_ix, rget_responses, local_files,
                   local_dirs, reported, walked, enqueued, transfers_ended,
                   first_run>>

\* The same rget is run once more, on what the first run left: neither the
\* remote tree nor the local target is touched in between.
RgetAgain ==
    /\ rget_pc \in {"returned", "raised"}
    /\ rget_run = 1
    /\ rget_sync
    /\ rget_run' = 2
    /\ first_run' = IF rget_pc = "raised" THEN "raised"
                     ELSE IF \E i \in 1..Len(reported) : reported[i].entry.ex
                          THEN "errors" ELSE "clean"
    /\ rget_pc' = "find"
    /\ find_pc' = "start"
    /\ pending' = <<>>
    /\ entries_found' = 0
    /\ find_queue' = {}
    /\ find_worker' = [w \in FindWorkers |-> IdleWorker]
    /\ find_responses' = {}
    /\ listings_failed' = {}
    /\ entries' = 1
    /\ active_gets' = {}
    /\ high_queue' = <<>>
    /\ high_worker' = [w \in FindWorkers |-> IdleHighWorker]
    /\ high_terminate_ix' = 0
    /\ rget_responses' = <<>>
    /\ reported' = <<>>
    /\ walked' = <<>>
    /\ enqueued' = <<>>
    /\ transfers_ended' = {}
    /\ UNCHANGED <<tree, predicates, filter_cb, emitted, rget_sync, rget_overwrite, cb_entry,
                   local_files, local_dirs>>

RgetNext ==
    \/ \E ok \in BOOLEAN : RgetFindStart(ok) /\ UNCHANGED notRget
    \/ \E w \in FindWorkers :
           FindWorkerGet(w) /\ UNCHANGED rgetVars /\ UNCHANGED notRget
    \/ \E w \in FindWorkers, ok \in BOOLEAN :
           FindWorkerEnd(w, ok) /\ UNCHANGED rgetVars /\ UNCHANGED notRget
    \/ RgetControlRound /\ UNCHANGED notRget
    \/ RgetFindCb /\ UNCHANGED notRget
    \/ RgetFindCbPut /\ UNCHANGED notRget
    \/ FindEnd /\ UNCHANGED rgetVars /\ UNCHANGED notRget
    \/ \E w \in FindWorkers : HighWorkerGet(w) /\ UNCHANGED notRget
    \/ \E w \in FindWorkers, ok \in BOOLEAN : HighWorkerEnd(w, ok) /\ UNCHANGED notRget
    \/ RgetHighTerminate /\ UNCHANGED notRget
    \/ RgetHighJoin /\ UNCHANGED notRget
    \/ RgetDrain /\ UNCHANGED notRget
    \/ RgetReturn /\ UNCHANGED notRget
    \/ RgetAgain /\ UNCHANGED notRget

\* ---- what the caller of rget sees ----

EnqueuedSet == {enqueued[k] : k \in 1..Len(enqueued)}

ReportedRelpath(i) == Relpath(reported[i].entry.fi, FindPath)

ReportsOf(relpath) == {i \in 1..Len(reported) : ReportedRelpath(i) = relpath}

\* C12: when rget returns, active_gets is empty and every entry find passed
\* to find_cb has been passed to the caller's update_cb exactly once; and at
\* every moment an entry that was queued for transfer and has been passed to
\* update_cb is one whose _async_get has ended.
C12_DrainedAndReportedOnce ==
    /\ \A i \in 1..Len(reported) :
           ReportedRelpath(i) \in EnqueuedSet =>
               \E t \in transfers_ended : t.relpath = ReportedRelpath(i)
    /\ rget_pc = "returned" =>
           /\ active_gets = {}
           /\ Len(reported) = Len(walked)
           /\ \A k \in 1..Len(walked) :
                  Cardinality(ReportsOf(Relpath(walked[k].fi, FindPath))) = 1

C12_Witness ==
    /\ rget_pc = "returned"
    /\ Len(enqueued) >= 2
    /\ \E k \in 1..Len(walked) : walked[k].fi.is_dir /\ walked[k].fi.abspath # FindPath
    /\ \E i \in 1..Len(reported) :
           /\ ReportedRelpath(i) \in EnqueuedSet
           /\ i < Len(reported)

\* C13, as the code has it: the entries find_cb reports itself, that is the
\* directories and the files it does not queue for transfer, reach update_cb
\* in ascending order of abspath, and a file queued for transfer reaches it
\* when its _async_get has ended, after every entry of a smaller abspath that
\* was not queued, but possibly after entries of a greater abspath.
C13_UnqueuedAscendingQueuedLater ==
    LET queued == {i \in 1..Len(reported) : ReportedRelpath(i) \in EnqueuedSet}
        Path(i) == reported[i].entry.fi.abspath
    IN /\ \A i, j \in (1..Len(reported)) \ queued : i < j => StrLt(Path(i), Path(j))
       /\ \A j \in queued :
              /\ \E t \in transfers_ended : t.relpath = ReportedRelpath(j)
              /\ \A i \in (1..Len(reported)) \ queued : StrLt(Path(i), Path(j)) => i < j

\* a file queued for transfer is reported after a directory that follows it
C13_Witness ==
    /\ rget_pc = "returned"
    /\ \E i, j \in 1..Len(reported) :
           /\ i < j
           /\ ReportedRelpath(j) \in EnqueuedSet
           /\ reported[i].entry.fi.is_dir
           /\ StrLt(reported[j].entry.fi.abspath, reported[i].entry.fi.abspath)

\* C13, as stated: the entries rget passes to update_cb are in ascending
\* order of abspath.
C13_ReportedAscending ==
    \A i, j \in 1..Len(reported) :
        i < j => StrLt(reported[i].entry.fi.abspath, reported[j].entry.fi.abspath)

\* C14: the `done` of the calls of update_cb never decreases during one rget.
C14_DoneNeverDecreases ==
    \A i, j \in 1..Len(reported) : i < j => reported[i].done <= reported[j].done

\* C16: the _async_get that raises does not end rget, which raises only what
\* find raised; when rget ends every transfer queued has ended, and when it
\* returns each of them has been passed to update_cb once, with the exception
\* exactly when its _async_get raised.
C16_TransferFailureDoesNotAbort ==
    /\ rget_pc = "raised" => find_pc = "raised"
    /\ rget_pc \in {"returned", "raised"} =>
           \A k \in 1..Len(enqueued) :
               \E t \in transfers_ended : t.relpath = enqueued[k]
    /\ rget_pc = "returned" =>
           \A t \in transfers_ended :
               /\ Cardinality(ReportsOf(t.relpath)) = 1
               /\ \A i \in ReportsOf(t.relpath) : reported[i].entry.ex = ~t.ok

C16_Witness ==
    /\ rget_pc = "returned"
    /\ \E t, u \in transfers_ended :
           /\ ~t.ok /\ u.ok
           /\ \E i, j \in 1..Len(reported) :
                  /\ i < j
                  /\ ReportedRelpath(i) = t.relpath /\ reported[i].entry.ex
                  /\ ReportedRelpath(j) = u.relpath /\ ~reported[j].entry.ex

\* The wrappers of _async_get that are queued on the high Swarm or run by
\* one of its workers.
HighTasks ==
    {high_queue[i] : i \in {k \in 1..Len(high_queue) : ~high_queue[k].sentinel}}
    \cup {high_worker[w].task : w \in {v \in FindWorkers : high_worker[v].pc = "running"}}

\* The local target of the entry is missing, or its size is not the remote
\* size, or its modification time is before the remote one.
LocalOutOfDate(relpath, fi) ==
    \/ ~LocalExists(relpath)
    \/ \E f \in local_files :
           /\ f.relpath = relpath
           /\ f.st_size # fi.size \/ f.st_mtime_ns < RemoteMtime * 1000000

\* C33: under sync=true, when find_cb is passed a file entry that is good,
\* the transfer is queued (or find_cb waits for room in the queue to queue
\* it) iff the local target is missing, has another size or is older than
\* the remote file; otherwise nothing is queued and the entry is passed to
\* update_cb with good = False.  Every transfer of a sync=true command is
\* queued with overwrite=True, whatever the overwrite argument.
C33_SyncSchedulesOutOfDate ==
    /\ [](rget_sync => \A t \in HighTasks : t.overwrite)
    /\ [][(rget_sync /\ Len(walked') = Len(walked) + 1) =>
            LET e == Head(pending)
                relpath == Relpath(e.fi, FindPath)
                scheduled == enqueued' # enqueued \/ cb_entry' # NoEntry
            IN (~e.fi.is_dir /\ e.good) =>
                   /\ scheduled <=> LocalOutOfDate(relpath, e.fi)
                   /\ ~scheduled =>
                          /\ Len(reported') > Len(reported)
                          /\ reported'[Len(reported')].entry =
                                 [e EXCEPT !.good = FALSE]
                          /\ active_gets' \subseteq active_gets]_vars

\* A sync=true command called with overwrite=False has returned: it
\* downloaded the file whose copy was older and the file whose copy was
\* short, both over the copy, and passed the file whose copy was complete
\* and new as not good, without a transfer.
C33_Witness ==
    /\ rget_pc = "returned" /\ rget_run = 1
    /\ rget_sync /\ ~rget_overwrite
    /\ [relpath |-> <<"a">>, ok |-> TRUE] \in transfers_ended
    /\ [relpath |-> <<"a", "-">>, ok |-> TRUE] \in transfers_ended
    /\ <<"c">> \notin EnqueuedSet
    /\ \E i \in 1..Len(walked), j \in 1..Len(reported) :
           /\ Relpath(walked[i].fi, FindPath) = <<"c">>
           /\ ~walked[i].fi.is_dir /\ walked[i].good
           /\ reported[j].entry.fi = walked[i].fi
           /\ ~reported[j].entry.good

TransfersWaiting == {k \in 1..Len(high_queue) : ~high_queue[k].sentinel}
TransfersRunning == {w \in FindWorkers : high_worker[w].pc = "running"}
TransfersOutstanding ==
    {high_queue[k].relpath : k \in TransfersWaiting}
    \cup {high_worker[w].task.relpath : w \in TransfersRunning}
    \cup {rget_responses[i].relpath : i \in 1..Len(rget_responses)}
ActiveRelpaths == {Relpath(e.fi, FindPath) : e \in active_gets}

\* The completion messages a step takes from the response queue.
Taken == SubSeq(rget_responses, 1, Len(rget_responses) - Len(rget_responses'))

\* C38: active_gets holds exactly the file entries whose transfer was
\* queued and whose completion message has not been taken, one entry per
\* transfer; and whenever a completion message is taken from the response
\* queue its relpath is in active_gets, whose entry the step removes: no
\* completion is taken before its entry was recorded.
C38_ActiveGetsAreOutstanding ==
    /\ [](/\ ActiveRelpaths = TransfersOutstanding
          /\ Cardinality(active_gets) = Cardinality(TransfersWaiting)
                 + Cardinality(TransfersRunning) + Len(rget_responses)
          /\ \A e \in active_gets : ~e.fi.is_dir /\ Relpath(e.fi, FindPath) \in EnqueuedSet)
    /\ [][(rget_run' = rget_run /\ Len(rget_responses') < Len(rget_responses)) =>
             \A i \in 1..Len(Taken) :
                 /\ Taken[i].relpath \in ActiveRelpaths
                 /\ Taken[i].relpath \notin {Relpath(e.fi, FindPath) : e \in active_gets'}
                 /\ \E k \in 1..Len(reported') :
                        /\ k > Len(reported)
                        /\ Relpath(reported'[k].entry.fi, FindPath) = Taken[i].relpath]_vars

\* C38 witness: find_cb has taken the completion message of a transfer and
\* reported its entry while the transfer of another entry was running and
\* the message of a third waited in the response queue.
C38_Witness ==
    /\ rget_pc = "find"
    /\ \E i \in 1..Len(reported) : ReportedRelpath(i) \in EnqueuedSet
    /\ TransfersRunning # {}
    /\ rget_responses # <<>>
    /\ Cardinality(active_gets) = 2

Kinds == {"none", "file", "dir"}

Failures == {"None", "IO_ERROR", "Exception"}

MvRequest(op, path, error) == [op |-> op, path |-> path, error |-> error]

\* api/2.0/dbfs/move as the backend answers it
MoveError(failure) ==
    IF failure # "None" THEN failure
    ELSE IF mv_src_kind = "none" THEN "RESOURCE_DOES_NOT_EXIST"
    ELSE IF mv_dst_kind # "none" THEN "RESOURCE_ALREADY_EXISTS"
    ELSE "None"

\* api/2.0/dbfs/get-status of the destination as the backend answers it
StatusError(failure) ==
    IF failure # "None" THEN failure
    ELSE IF mv_dst_kind = "none" THEN "RESOURCE_DOES_NOT_EXIST"
    ELSE "None"

\* dbfs.py:204-211  _async_filetest(target, lambda fi: not fi.is_dir()), once
\* the status has come or RESOURCE_DOES_NOT_EXIST has
Filetest_AnyKind(error) == error = "None"
Filetest(error) == error = "None" /\ mv_dst_kind # "dir"

MvIdle ==
    /\ mv_src_kind = "none"
    /\ mv_dst_kind = "none"
    /\ mv_before = <<"none", "none">>
    /\ mv_overwrite = FALSE
    /\ mv_pc = "idle"
    /\ mv_requests = <<>>
    /\ mv_error = "None"

MvInit ==
    /\ mv_src_kind \in Kinds
    /\ mv_dst_kind \in Kinds
    /\ mv_before = <<mv_src_kind, mv_dst_kind>>
    /\ mv_overwrite \in BOOLEAN
    /\ mv_pc = "move"
    /\ mv_requests = <<>>
    /\ mv_error = "None"

\* dbfs.py:269-277  the first move: done, or the error that is not
\* RESOURCE_ALREADY_EXISTS raised, or the destination looked at.  The
\* argument `overwrite` is not read.
MvMove(failure) ==
    /\ mv_pc = "move"
    /\ LET error == MoveError(failure)
       IN /\ mv_requests' = Append(mv_requests, MvRequest("move", "src", error))
          /\ IF error = "None"
             THEN /\ mv_pc' = "returned"
                  /\ mv_dst_kind' = mv_src_kind
                  /\ mv_src_kind' = "none"
                  /\ UNCHANGED mv_error
             ELSE IF error = "RESOURCE_ALREADY_EXISTS"
             THEN /\ mv_pc' = "filetest"
                  /\ mv_error' = error
                  /\ UNCHANGED <<mv_src_kind, mv_dst_kind>>
             ELSE /\ mv_pc' = "raised"
                  /\ mv_error' = error
                  /\ UNCHANGED <<mv_src_kind, mv_dst_kind>>
    /\ UNCHANGED <<mv_before, mv_overwrite>>

\* dbfs.py:273-277 with 204-211  the status of the destination: what is no
\* directory is to be deleted, a directory leaves the error of the move to be
\* raised, and an error of the status itself is raised in its place.
MvFiletest(failure) ==
    /\ mv_pc = "filetest"
    /\ LET error == StatusError(failure)
       IN /\ mv_requests' = Append(mv_requests, MvRequest("get-status", "dst", error))
          /\ IF error \in {"IO_ERROR", "Exception"}
             THEN mv_pc' = "raised" /\ mv_error' = error
             ELSE IF Filetest(error)
             THEN mv_pc' = "rm" /\ UNCHANGED mv_error
             ELSE mv_pc' = "raised" /\ UNCHANGED mv_error
    /\ UNCHANGED <<mv_src_kind, mv_dst_kind, mv_before, mv_overwrite>>

\* dbfs.py:275 with 244-247  the delete of the destination
MvRm(failure) ==
    /\ mv_pc = "rm"
    /\ mv_requests' = Append(mv_requests,
           MvRequest("delete", "dst", failure))
    /\ IF failure # "None"
       THEN mv_pc' = "raised" /\ mv_error' = failure /\ UNCHANGED mv_dst_kind
       ELSE mv_pc' = "move_again" /\ mv_dst_kind' = "none" /\ UNCHANGED mv_error
    /\ UNCHANGED <<mv_src_kind, mv_before, mv_overwrite>>

\* dbfs.py:276  the second move, whose error is raised as it is
MvMoveAgain(failure) ==
    /\ mv_pc = "move_again"
    /\ LET error == MoveError(failure)
       IN /\ mv_requests' = Append(mv_requests, MvRequest("move", "src", error))
          /\ IF error = "None"
             THEN /\ mv_pc' = "returned"
                  /\ mv_dst_kind' = mv_src_kind
                  /\ mv_src_kind' = "none"
                  /\ mv_error' = "None"
             ELSE /\ mv_pc' = "raised"
                  /\ mv_error' = error
                  /\ UNCHANGED <<mv_src_kind, mv_dst_kind>>
    /\ UNCHANGED <<mv_before, mv_overwrite>>

MvNext ==
    \/ \E failure \in Failures : MvMove(failure) /\ UNCHANGED notMv
    \/ \E failure \in Failures : MvFiletest(failure) /\ UNCHANGED notMv
    \/ \E failure \in Failures : MvRm(failure) /\ UNCHANGED notMv
    \/ \E failure \in Failures : MvMoveAgain(failure) /\ UNCHANGED notMv

MvEnded == mv_pc \in {"returned", "raised"}

Ops == [i \in 1..Len(mv_requests) |-> mv_requests[i].op]

NoOtherFailure ==
    \A i \in 1..Len(mv_requests) : mv_requests[i].error \notin {"IO_ERROR", "Exception"}

C21_NoDeleteWithoutOverwrite ==
    ~mv_overwrite =>
        /\ \A i \in 1..Len(mv_requests) : mv_requests[i].op # "delete"
        /\ (/\ MvEnded
            /\ NoOtherFailure
            /\ Len(mv_requests) > 0
            /\ mv_requests[1].error = "RESOURCE_ALREADY_EXISTS") =>
               /\ mv_pc = "raised"
               /\ mv_error = "RESOURCE_ALREADY_EXISTS"
               /\ mv_dst_kind = mv_before[2]

(***************************************************************************)
(*               DBFS._async_rput: the upload of a local tree              *)
(***************************************************************************)

\* dbfs.py:694-751.  The local tree is the list of its directories in the
\* order of os.walk, each with its number of files; file f of directory d is
\* <<d, f>>, and <<d, 0>> stands for the directory itself.  update_cb is
\* given.  FileInfo.from_local (dbfs.py:696, 704) is read as
\* FileInfoLocal.from_path (fileinfo.py:125-132); as written the name is not
\* defined and the call raises AttributeError, which is the outcome of
\* RputStart(FALSE).
MaxRputDirs == 2
MaxRputFiles == 2
MaxRputWorkers == 2

RputWorkers == 1..rput_workers

RputTrees == UNION {[1..n -> 0..MaxRputFiles] : n \in 0..MaxRputDirs}

PutTask(path) == [sentinel |-> FALSE, path |-> path]
PutSentinel == [sentinel |-> TRUE, path |-> <<0, 0>>]
IdlePutWorker == [pc |-> "idle", task |-> PutSentinel]

\* update_cb(path, ok, ex)
PutReport(path, ok, exc) == [path |-> path, ok |-> ok, ex |-> exc]

RputIdle ==
    /\ rput_tree = <<>>
    /\ rput_workers = 1
    /\ rput_pc = "idle"
    /\ rput_dir = 0
    /\ rput_fn = 0
    /\ active_puts = 0
    /\ mkdir_result = [d \in 1..MaxRputDirs |-> "None"]
    /\ rput_queue = <<>>
    /\ rput_worker = [w \in 1..MaxRputWorkers |-> IdlePutWorker]
    /\ rput_responses = <<>>
    /\ rput_reported = <<>>
    /\ rput_enqueued = <<>>
    /\ uploads_ended = {}

\* dbfs.py:694-699  rput is called: nothing is queued or made yet.
RputInit ==
    /\ rput_tree \in RputTrees
    /\ rput_workers \in 1..MaxRputWorkers
    /\ rput_pc = "start"
    /\ rput_dir = 0
    /\ rput_fn = 0
    /\ active_puts = 0
    /\ mkdir_result = [d \in 1..MaxRputDirs |-> "None"]
    /\ rput_queue = <<>>
    /\ rput_worker = [w \in 1..MaxRputWorkers |-> IdlePutWorker]
    /\ rput_responses = <<>>
    /\ rput_reported = <<>>
    /\ rput_enqueued = <<>>
    /\ uploads_ended = {}

\* dbfs.py:710-732  the files of a directory that are queued: all of them
\* in the else branch of the try, none after an exception.
FilesToPut_Regardless(mkdir_ok, filenames) == filenames
FilesToPut(mkdir_ok, filenames) == IF mkdir_ok THEN filenames ELSE 0

\* Where control() goes after directory d (dbfs.py:703, 744).
AfterDir(d) == IF d < Len(rput_tree) THEN "mkdir" ELSE "wait"

\* dbfs.py:695-703  the root is resolved and control() starts its walk; a
\* walk of no directory (src is no directory) goes to the last loop at once.
RputStart(from_local_ok) ==
    /\ rput_pc = "start"
    /\ IF from_local_ok
       THEN /\ rput_pc' = AfterDir(0)
            /\ rput_dir' = 1
       ELSE /\ rput_pc' = "raised"
            /\ UNCHANGED rput_dir
    /\ UNCHANGED <<rput_tree, rput_workers, rput_fn, active_puts, mkdir_result,
                   rput_queue, rput_worker, rput_responses, rput_reported,
                   rput_enqueued, uploads_ended>>

\* dbfs.py:704-719  the mkdir of the directory returns or raises, and
\* update_cb is called for the directory and, after an exception, for each
\* of its files.
RputMkdir(mkdir_ok) ==
    /\ rput_pc = "mkdir"
    /\ mkdir_result' = [mkdir_result EXCEPT ![rput_dir] = IF mkdir_ok THEN "ok" ELSE "failed"]
    /\ rput_reported' =
           IF mkdir_ok
           THEN Append(rput_reported, PutReport(<<rput_dir, 0>>, TRUE, FALSE))
           ELSE rput_reported \o <<PutReport(<<rput_dir, 0>>, FALSE, TRUE)>>
                \o [f \in 1..rput_tree[rput_dir] |-> PutReport(<<rput_dir, f>>, FALSE, FALSE)]
    /\ rput_fn' = 1
    /\ rput_pc' = "put"
    /\ UNCHANGED <<rput_tree, rput_workers, rput_dir, active_puts, rput_queue,
                   rput_worker, rput_responses, rput_enqueued, uploads_ended>>

\* dbfs.py:721-732 with swarm.py:99-105  the next file of the directory is
\* queued once the queue has room, and counted.
RputPut ==
    /\ rput_pc = "put"
    /\ rput_fn <= FilesToPut(mkdir_result[rput_dir] = "ok", rput_tree[rput_dir])
    /\ Len(rput_queue) < rput_workers
    /\ rput_queue' = Append(rput_queue, PutTask(<<rput_dir, rput_fn>>))
    /\ rput_enqueued' = Append(rput_enqueued, <<rput_dir, rput_fn>>)
    /\ active_puts' = active_puts + 1
    /\ rput_fn' = rput_fn + 1
    /\ UNCHANGED <<rput_tree, rput_workers, rput_pc, rput_dir, mkdir_result,
                   rput_worker, rput_responses, rput_reported, uploads_ended>>

\* The calls of update_cb for the responses taken (dbfs.py:739-742, 746-749)
PutReports(responses) ==
    [i \in 1..Len(responses) |->
        PutReport(responses[i].path, responses[i].ok, ~responses[i].ok)]

\* dbfs.py:734-742  the files of the directory are queued: the responses at
\* hand are taken without waiting and reported, and the walk goes on.
RputNowait ==
    /\ rput_pc = "put"
    /\ rput_fn > FilesToPut(mkdir_result[rput_dir] = "ok", rput_tree[rput_dir])
    /\ rput_responses' = <<>>
    /\ active_puts' = active_puts - Len(rput_responses)
    /\ rput_reported' = rput_reported \o PutReports(rput_responses)
    /\ rput_pc' = AfterDir(rput_dir)
    /\ rput_dir' = rput_dir + 1
    /\ rput_fn' = 0
    /\ UNCHANGED <<rput_tree, rput_workers, mkdir_result, rput_queue, rput_worker,
                   rput_enqueued, uploads_ended>>

\* dbfs.py:744-749  one turn of `while active_puts > 0`
RputWait ==
    /\ rput_pc = "wait"
    /\ active_puts > 0
    /\ rput_responses # <<>>
    /\ rput_responses' = Tail(rput_responses)
    /\ active_puts' = active_puts - 1
    /\ rput_reported' = rput_reported \o PutReports(<<Head(rput_responses)>>)
    /\ UNCHANGED <<rput_tree, rput_workers, rput_pc, rput_dir, rput_fn, mkdir_result,
                   rput_queue, rput_worker, rput_enqueued, uploads_ended>>

\* dbfs.py:744, 751 with swarm.py:47-52, 69-72  control() returns and the
\* wrapper of run_while queues one sentinel per worker.
RputControlEnd ==
    /\ rput_pc = "wait"
    /\ active_puts <= 0
    /\ rput_queue' = rput_queue \o [k \in 1..rput_workers |-> PutSentinel]
    /\ rput_pc' = "terminating"
    /\ UNCHANGED <<rput_tree, rput_workers, rput_dir, rput_fn, active_puts,
                   mkdir_result, rput_worker, rput_responses, rput_reported,
                   rput_enqueued, uploads_ended>>

\* swarm.py:78-84  a worker takes the oldest wrapper; the workers are alike
\* and the first of those waiting takes it.
RputWorkerGet(w) ==
    /\ rput_worker[w].pc = "idle"
    /\ \A v \in RputWorkers : v < w => rput_worker[v].pc # "idle"
    /\ rput_queue # <<>>
    /\ rput_worker' = [rput_worker EXCEPT ![w] =
           IF Head(rput_queue).sentinel THEN [pc |-> "exited", task |-> PutSentinel]
           ELSE [pc |-> "running", task |-> Head(rput_queue)]]
    /\ rput_queue' = Tail(rput_queue)
    /\ UNCHANGED <<rput_tree, rput_workers, rput_pc, rput_dir, rput_fn, active_puts,
                   mkdir_result, rput_responses, rput_reported, rput_enqueued,
                   uploads_ended>>

\* dbfs.py:288-315 with swarm.py:85-97  the _async_put of a worker returns
\* or raises, and its response is queued.
RputWorkerEnd(w, put_ok) ==
    /\ rput_worker[w].pc = "running"
    /\ rput_responses' = Append(rput_responses,
                                [path |-> rput_worker[w].task.path, ok |-> put_ok])
    /\ uploads_ended' = uploads_ended
           \cup {[path |-> rput_worker[w].task.path, ok |-> put_ok]}
    /\ rput_worker' = [rput_worker EXCEPT ![w] = IdlePutWorker]
    /\ UNCHANGED <<rput_tree, rput_workers, rput_pc, rput_dir, rput_fn, active_puts,
                   mkdir_result, rput_queue, rput_reported, rput_enqueued>>

\* swarm.py:54-61  the workers have ended and run_while, and with it rput,
\* returns.
RputEnd ==
    /\ rput_pc = "terminating"
    /\ \A w \in RputWorkers : rput_worker[w].pc = "exited"
    /\ rput_pc' = "returned"
    /\ UNCHANGED <<rput_tree, rput_workers, rput_dir, rput_fn, active_puts,
                   mkdir_result, rput_queue, rput_worker, rput_responses,
                   rput_reported, rput_enqueued, uploads_ended>>

RputNext ==
    \/ \E ok \in BOOLEAN : RputStart(ok) /\ UNCHANGED notRput
    \/ \E ok \in BOOLEAN : RputMkdir(ok) /\ UNCHANGED notRput
    \/ RputPut /\ UNCHANGED notRput
    \/ RputNowait /\ UNCHANGED notRput
    \/ RputWait /\ UNCHANGED notRput
    \/ RputControlEnd /\ UNCHANGED notRput
    \/ \E w \in RputWorkers : RputWorkerGet(w) /\ UNCHANGED notRput
    \/ \E w \in RputWorkers, ok \in BOOLEAN : RputWorkerEnd(w, ok) /\ UNCHANGED notRput
    \/ RputEnd /\ UNCHANGED notRput

RputEnqueuedSet == {rput_enqueued[k] : k \in 1..Len(rput_enqueued)}
RputDirs == 1..Len(rput_tree)
RputOver == rput_pc \in {"terminating", "returned"}

\* C40: in rput the remote directory of a local directory is made before
\* any of its files is queued for upload; when that mkdir fails none of its
\* files is queued or uploaded, the walk goes on to the directories that
\* follow, and rput returns only when every upload it queued has ended and
\* has been reported once.
C40_MkdirBeforeUploads ==
    /\ [](/\ \A p \in RputEnqueuedSet : mkdir_result[p[1]] = "ok"
          /\ \A d \in RputDirs :
                mkdir_result[d] = "failed" =>
                    /\ \A p \in RputEnqueuedSet : p[1] # d
                    /\ \A u \in uploads_ended : u.path[1] # d
                    /\ rput_pc \notin {"mkdir", "raised"} \/ rput_dir > d
          /\ RputOver =>
                /\ \A d \in RputDirs : mkdir_result[d] # "None"
                /\ active_puts = 0
                /\ rput_responses = <<>>
                /\ \A k \in 1..Len(rput_queue) : rput_queue[k].sentinel
                /\ \A w \in RputWorkers : rput_worker[w].pc # "running"
                /\ \A p \in RputEnqueuedSet :
                      /\ \E u \in uploads_ended : u.path = p
                      /\ Cardinality({i \in 1..Len(rput_reported) :
                                         rput_reported[i].path = p}) = 1
                      /\ \A i \in 1..Len(rput_reported) :
                            rput_reported[i].path = p =>
                                [path |-> p, ok |-> rput_reported[i].ok] \in uploads_ended)
    /\ [][Len(rput_enqueued') > Len(rput_enqueued) =>
             mkdir_result[rput_enqueued'[Len(rput_enqueued')][1]] = "ok"]_vars

\* C40 witness: the mkdir of the first directory, which has files, failed;
\* the walk went on to the second, whose two files were queued, one upload
\* failed, and rput has returned.
C40_Witness ==
    /\ rput_pc = "returned"
    /\ Len(rput_tree) = 2
    /\ rput_tree[1] >= 1
    /\ mkdir_result[1] = "failed"
    /\ mkdir_result[2] = "ok"
    /\ rput_enqueued = <<<<2, 1>>, <<2, 2>>>>
    /\ \E u \in uploads_ended : ~u.ok

(***************************************************************************)
(*                             Specifications                              *)
(***************************************************************************)


ExtraIdle == CheckIdle /\ RputIdle

MoreIdle == TaskLogIdle /\ CompareIdle /\ UnpackIdle /\ ExtraIdle

GateNext ==
    \/ \E i \in Requests : ControlBegin(i) /\ UNCHANGED notGate
    \/ \E i \in Requests : ControlAcquire(i) /\ UNCHANGED notGate
    \/ \E i \in Requests : ControlWake(i) /\ UNCHANGED notGate
    \/ \E i \in Requests : ControlReturn(i) /\ UNCHANGED notGate
    \/ \E i \in Requests : ControlRateError(i) /\ UNCHANGED notGate
    \/ \E i \in Requests : ControlOSError(i) /\ UNCHANGED notGate
    \/ \E i \in Requests : ControlBackoffEnd(i) /\ UNCHANGED notGate
    \/ \E i \in Requests : ControlOtherError(i) /\ UNCHANGED notGate
    \/ Tick /\ UNCHANGED notGate

InitGate == GateInit /\ SwarmIdle /\ CwdIdle /\ FindIdle /\ GetIdle /\ PutIdle /\ RgetIdle /\ MvIdle
    /\ GetTargetIdle /\ MoreIdle

SpecGate == InitGate /\ [][GateNext]_vars

SwarmNext ==
    \/ \E k \in DriverKeys, b \in BOOLEAN : DriverPut(k, b) /\ UNCHANGED notSwarm
    \/ DriverGetResponse /\ UNCHANGED notSwarm
    \/ \E o \in {"returned", "raised"} : DriverEnd(o) /\ UNCHANGED notSwarm
    \/ TerminatePut /\ UNCHANGED notSwarm
    \/ WrapperEnd /\ UNCHANGED notSwarm
    \/ \E w \in ActiveWorkers : WorkerGet(w) /\ UNCHANGED notSwarm
    \/ \E w \in ActiveWorkers, b \in BOOLEAN : WorkerTaskEnd(w, b) /\ UNCHANGED notSwarm
    \/ RunWhileEnd /\ UNCHANGED notSwarm

InitSwarm == SwarmInit /\ GateIdle /\ CwdIdle /\ FindIdle /\ GetIdle /\ PutIdle /\ RgetIdle /\ MvIdle
    /\ GetTargetIdle /\ MoreIdle

SpecSwarm == InitSwarm /\ [][SwarmNext]_vars

InitSwarmLoad ==
    SwarmInit /\ TaskLogIdle /\ CompareIdle /\ UnpackIdle /\ GateIdle /\ CwdIdle
    /\ FindIdle /\ GetIdle /\ PutIdle /\ RgetIdle /\ MvIdle /\ GetTargetIdle
    /\ ExtraIdle

SpecSwarmLoad == InitSwarmLoad /\ [][SwarmLoadNext]_vars

\* The event loop runs every task that can run, and every running task of a
\* worker ends.
SwarmFairness ==
    /\ WF_vars(TerminatePut /\ UNCHANGED notSwarm)
    /\ WF_vars(WrapperEnd /\ UNCHANGED notSwarm)
    /\ \A w \in Workers : WF_vars(WorkerGet(w) /\ UNCHANGED notSwarm)
    /\ \A w \in Workers : WF_vars((\E b \in BOOLEAN : WorkerTaskEnd(w, b)) /\ UNCHANGED notSwarm)
    /\ WF_vars(RunWhileEnd /\ UNCHANGED notSwarm)

FairSpecSwarm == SpecSwarm /\ SwarmFairness

InitCwd == CwdInit /\ GateIdle /\ SwarmIdle /\ FindIdle /\ GetIdle /\ PutIdle /\ RgetIdle /\ MvIdle
    /\ GetTargetIdle /\ MoreIdle

SpecCwd == InitCwd /\ [][CwdNext]_vars

InitFind == FindInit /\ GateIdle /\ SwarmIdle /\ CwdIdle /\ GetIdle /\ PutIdle /\ RgetIdle /\ MvIdle
    /\ GetTargetIdle /\ MoreIdle

SpecFind == InitFind /\ [][FindNext]_vars

InitGet == GetInit /\ GateIdle /\ SwarmIdle /\ CwdIdle /\ FindIdle /\ PutIdle /\ RgetIdle /\ MvIdle
    /\ GetTargetIdle /\ MoreIdle

SpecGet == InitGet /\ [][GetNext]_vars

InitPut == PutInit /\ GateIdle /\ SwarmIdle /\ CwdIdle /\ FindIdle /\ GetIdle /\ RgetIdle /\ MvIdle
    /\ GetTargetIdle /\ MoreIdle

SpecPut == InitPut /\ [][PutNext]_vars

InitRget == RgetInit /\ GateIdle /\ SwarmIdle /\ CwdIdle /\ GetIdle /\ PutIdle /\ MvIdle
    /\ GetTargetIdle /\ MoreIdle

SpecRget == InitRget /\ [][RgetNext]_vars

\* A step of RgetNext can be taken: the conjuncts of its actions that read
\* no primed variable, i.e. ENABLED <<RgetNext>>_vars.
RgetCanStep ==
    \/ rget_pc = "find" /\ find_pc \in {"start", "emit"}
    \/ \E w \in FindWorkers : find_worker[w].pc = "idle" /\ find_queue # {}
    \/ \E w \in FindWorkers : find_worker[w].pc = "listing"
    \/ rget_pc = "find" /\ find_pc = "control" /\ find_responses # {}
    \/ rget_pc = "find" /\ find_pc = "cb_put" /\ Len(high_queue) < MaxFindWorkers
    \/ /\ find_pc \in {"terminating", "raising"}
       /\ \A w \in FindWorkers : find_worker[w].pc = "exited"
    \/ \E w \in FindWorkers : high_worker[w].pc = "idle" /\ high_queue # <<>>
    \/ \E w \in FindWorkers : high_worker[w].pc = "running"
    \/ /\ rget_pc = "find" /\ find_pc \in {"returned", "raised"}
       /\ high_terminate_ix < MaxFindWorkers /\ Len(high_queue) < MaxFindWorkers
    \/ /\ rget_pc = "find" /\ high_terminate_ix = MaxFindWorkers
       /\ \A w \in FindWorkers : high_worker[w].pc = "exited"
    \/ rget_pc = "drain" /\ (active_gets = {} \/ rget_responses # <<>>)
    \/ rget_pc \in {"returned", "raised"} /\ rget_run = 1 /\ rget_sync

\* The event loop runs a task that can run, every listing gets its answer
\* and every _async_get ends: the command does not stop while one of its
\* steps can be taken.  This is WF_vars(RgetNext), with its ENABLED written
\* as RgetCanStep.
RgetFairness == []<>(~RgetCanStep) \/ []<><<RgetNext>>_vars

FairSpecRget == SpecRget /\ RgetFairness

InitMv ==
    MvInit /\ GateIdle /\ SwarmIdle /\ CwdIdle /\ FindIdle /\ GetIdle /\ PutIdle /\ RgetIdle
    /\ GetTargetIdle /\ MoreIdle

SpecMv == InitMv /\ [][MvNext]_vars

InitCompare ==
    CompareInit /\ TaskLogIdle /\ UnpackIdle /\ GateIdle /\ SwarmIdle /\ CwdIdle /\ FindIdle
    /\ GetIdle /\ PutIdle /\ RgetIdle /\ MvIdle /\ GetTargetIdle /\ ExtraIdle

SpecCompare == InitCompare /\ [][CompareNext]_vars

InitUnpack ==
    UnpackInit /\ TaskLogIdle /\ CompareIdle /\ GateIdle /\ SwarmIdle /\ CwdIdle /\ FindIdle
    /\ GetIdle /\ PutIdle /\ RgetIdle /\ MvIdle /\ GetTargetIdle /\ ExtraIdle

SpecUnpack == InitUnpack /\ [][UnpackNext]_vars

InitCheck ==
    CheckInit /\ TaskLogIdle /\ CompareIdle /\ UnpackIdle /\ GateIdle /\ SwarmIdle
    /\ CwdIdle /\ FindIdle /\ GetIdle /\ PutIdle /\ RgetIdle /\ MvIdle /\ GetTargetIdle
    /\ RputIdle

SpecCheck == InitCheck /\ [][CheckNext]_vars

InitRput ==
    RputInit /\ TaskLogIdle /\ CompareIdle /\ UnpackIdle /\ CheckIdle /\ GateIdle
    /\ SwarmIdle /\ CwdIdle /\ FindIdle /\ GetIdle /\ PutIdle /\ RgetIdle /\ MvIdle
    /\ GetTargetIdle

SpecRput == InitRput /\ [][RputNext]_vars

InitGetTarget ==
    GetTargetInit /\ GateIdle /\ SwarmIdle /\ CwdIdle /\ FindIdle /\ GetIdle /\ PutIdle
    /\ RgetIdle /\ MvIdle /\ MoreIdle

SpecGetTarget == InitGetTarget /\ [][GetTargetNext]_vars

====
